---- MODULE Spec2Model ----
(***************************************************************************)
(* TypePulse collector core: the event state machine (KeyDown / KeyUp /    *)
(* Tick), the shortcut normalizer and admission filter, the compact event  *)
(* chunk encoder, the control surface of CollectorState, the JSON file     *)
(* storage (daily shards of detail rows and of analytics), the periodic    *)
(* save of the tick thread, clear_stats and the restart of the process.    *)
(*                                                                         *)
(* Durations and monotonic instants are counted in microseconds, wall      *)
(* clock readings (current_ts_ms) in milliseconds.                         *)
(***************************************************************************)
EXTENDS Integers, Sequences, FiniteSets, TLC

\* ------------------------------------------------------------------ bounds
\* Largest monotonic instant (microseconds) an event may carry.
MaxClock == 1000001
\* Largest number of compact events the encoder is driven to write in a run.
MaxLog == 2
\* Largest session_gap_secs / shortcut_min_modifiers read from the config.
MaxGapSecs == 1
MaxMinModifiers == 2
\* Largest sum of active_typing_ms the ticks are driven to credit.
MaxActiveMs == 1000
\* The value standing for u32::MAX, where next_app_ref saturates.
MaxAppRef == 7

\* -------------------------------------------------------- program constants
\* u8::MAX, the largest modifier mask parse::<u8>() accepts.
MaxMask == 255
MicrosPerSec == 1000000
MicrosPerMilli == 1000
INPUT_CHUNK_WINDOW_MS == 5000
INPUT_CHUNK_MAX_EVENTS == 500
INPUT_CHUNK_MAX_STORED == 20000
\* Milliseconds of one calendar day.
MsPerDay == 86400000

\* Option<String>::None, and Option<T> of a structured T as a sequence of at most one.
NoneStr == "<none>"
None == << >>
Some(x) == <<x>>

\* ------------------------------------------------------------- value types
\* ModifierSnapshot: five booleans.
ModifierSnapshot == [ctrl : BOOLEAN, opt : BOOLEAN, shift : BOOLEAN,
                     cmd : BOOLEAN, function : BOOLEAN]

Mods(c, o, s, m, f) == [ctrl |-> c, opt |-> o, shift |-> s, cmd |-> m, function |-> f]

\* ModifierSnapshot::default()
NoMods == Mods(FALSE, FALSE, FALSE, FALSE, FALSE)

B2N(b) == IF b THEN 1 ELSE 0

has_any(m) == m.ctrl \/ m.opt \/ m.shift \/ m.cmd \/ m.function

has_shortcut_modifier(m) == m.ctrl \/ m.cmd

modifier_count(m) == B2N(m.ctrl) + B2N(m.opt) + B2N(m.shift) + B2N(m.cmd) + B2N(m.function)

\* bit0 ctrl, bit1 opt, bit2 shift, bit3 cmd, bit4 fn
bitmask(m) == B2N(m.ctrl) + 2 * B2N(m.opt) + 4 * B2N(m.shift) + 8 * B2N(m.cmd)
              + 16 * B2N(m.function)

\* str::trim and to_ascii_lowercase over the identifiers the model uses.
trim(s) ==
    CASE s = " CMD_Z " -> "CMD_Z"
      [] s = " Com.Test.Editor " -> "Com.Test.Editor"
      [] s = "  " -> ""
      [] OTHER -> s

to_ascii_lowercase(s) ==
    CASE s = "Com.Test.Editor" -> "com.test.editor"
      [] s = " Com.Test.Editor " -> " com.test.editor "
      [] s = "CMD_Z" -> "cmd_z"
      [] s = " CMD_Z " -> " cmd_z "
      [] OTHER -> s

\* .map(|v| v.trim().to_ascii_lowercase()).filter(|v| !v.is_empty()).collect()
normalize_id_list(raw) == {to_ascii_lowercase(trim(v)) : v \in raw} \ {""}

\* CaptureContext values the platform bridge is taken to report.
CtxEditor == [app_name |-> "Editor", window_title |-> "Doc",
              bundle_id |-> "com.test.editor", secure_input |-> FALSE]
CtxEditorSecure == [CtxEditor EXCEPT !.secure_input = TRUE]
CtxVault == [app_name |-> "1Password", window_title |-> "Vault",
             bundle_id |-> "com.1password.1password", secure_input |-> FALSE]
CtxUnknown == [app_name |-> "Unknown", window_title |-> "",
               bundle_id |-> NoneStr, secure_input |-> FALSE]

Contexts == {CtxEditor, CtxEditorSecure, CtxVault, CtxUnknown}

\* Local minutes current_minute() is taken to return.
Minutes == {"2026-02-09 23:59", "2026-02-10 00:00"}

\* Physical keys of the keyboard bridge and the shortcut key each one reports.
PhysicalKeys == {"mac:6", "mac:7"}
normalize_macos_keycode(k) ==
    CASE k = "mac:6" -> "z"
      [] k = "mac:43" -> ","
      [] OTHER -> "x"

\* Every physical key the model presses: the two letter keys and the comma key.
KeyboardKeys == PhysicalKeys \cup {"mac:43"}

\* ------------------------------------------------------------------- state
VARIABLES
    stats,                        \* HashMap<StatsKey, StatsValue>
    last_typing_instant,          \* Instant of the last accounted activity
    session_gap,                  \* Duration
    paused,
    auto_paused,
    auto_pause_reason,
    ignore_key_combos,
    excluded_bundle_ids,
    pressed_non_modifier_keys,
    active_stats_key,             \* Option<StatsKey>
    shortcut_usage,               \* HashMap<String, ShortcutUsageValue>
    app_dict,                     \* app_ref -> app_id
    app_ref_by_app,               \* app_id -> app_ref
    next_app_ref,
    event_chunks,                 \* Vec<InputEventChunk>, oldest first
    open_event_chunk,             \* Option<OpenInputEventChunk>
    shortcut_require_cmd_or_ctrl,
    shortcut_allow_alt_only,
    shortcut_min_modifiers,
    shortcut_allowlist,
    shortcut_blocklist,
    clock,                        \* last reading of the monotonic clock
    run,                          \* history: per physical key, the KeyDowns since its last KeyUp
    afterSuspendedTick,           \* history: a Tick saw pause/auto-pause, no KeyDown counted since
    afterDroppedCombo,            \* history: a combo KeyDown was dropped, no KeyDown counted since
    admitted,                     \* history: ids the admission filter accepted
    loadedIds,                    \* history: shortcut ids copied from storage at construction
    budget,                       \* exploration budget: compact events still to be appended
    stats_files,                  \* data dir: daily detail shards, date prefix -> rows
    legacy_stats_file,            \* data dir: the monolithic detail file, if it exists
    analytics_files,              \* data dir: daily analytics shards, day -> payload
    legacy_analytics_file,        \* data dir: the monolithic analytics file, if it exists
    lock_poisoned,                \* the Mutex around CollectorState is poisoned
    listener_running,             \* the listener thread is inside the platform listener
    keyboard_active,
    last_error,                   \* Option<String>
    menu_bar_display_mode,
    app_config,                   \* AppState.config, as last written to the config file
    reply,                        \* the StatsSnapshot a command returned in the last step
    modifier_state,               \* ModifierState (non-macOS listener)
    held_modifier_keys,           \* history: modifier keys pressed and not yet released
    last_tick_instant,            \* Instant of the tick thread's previous pass
    held_micros,                  \* history: Some(time spent with a key in the pressed set)
    inner_lock,                   \* AppState.inner: the thread holding the state Mutex
    config_lock,                  \* AppState.config: the thread holding the config Mutex
    thread_pc,                    \* per thread, the lock operation of its handler it is at
    unloaded                      \* history: the shards a failed load left out at start-up

\* The threads that take the locks of AppState: the keyboard listener, the tick thread,
\* the tray updater and two control commands running at the same time.
Threads == {"listener", "tick", "tray", "command_a", "command_b"}

typingVars == <<stats, last_typing_instant, pressed_non_modifier_keys, active_stats_key>>
pauseVars == <<paused, auto_paused, auto_pause_reason>>
configVars == <<session_gap, ignore_key_combos, excluded_bundle_ids>>
ruleVars == <<shortcut_require_cmd_or_ctrl, shortcut_allow_alt_only, shortcut_min_modifiers,
              shortcut_allowlist, shortcut_blocklist>>
dictVars == <<app_dict, app_ref_by_app, next_app_ref>>
chunkVars == <<event_chunks, open_event_chunk>>
historyVars == <<run, afterSuspendedTick, afterDroppedCombo, admitted, loadedIds>>
diskVars == <<stats_files, legacy_stats_file, analytics_files, legacy_analytics_file>>

runtimeVars == <<lock_poisoned, listener_running, keyboard_active, last_error,
                 menu_bar_display_mode>>
commandVars == <<app_config, reply>>
modifierVars == <<modifier_state, held_modifier_keys>>
tickVars == <<last_tick_instant, held_micros>>
lockVars == <<inner_lock, config_lock, thread_pc>>

vars == <<typingVars, pauseVars, configVars, ruleVars, dictVars, chunkVars, shortcut_usage,
          clock, historyVars, budget, diskVars, runtimeVars, commandVars, modifierVars,
          tickVars, lockVars, unloaded>>

EmptyMap == [x \in {} |-> 0]

\* No shard was left out by the loads of the last start-up.
AllLoaded == [stats_files |-> EmptyMap, analytics_files |-> EmptyMap]

\* or_insert(StatsValue { 0, 0, 0 })
ZeroStats == [active_typing_ms |-> 0, key_count |-> 0, session_count |-> 0]

\* Fault variant of EntryOr: the entry starts from the default even when the key is there.
EntryFromDefault(map, key, default) == default

\* HashMap::entry(key).or_insert(default), read side.
EntryOr(map, key, default) == IF key \in DOMAIN map THEN map[key] ELSE default

\* HashMap::insert / assignment through an entry.
Put(map, key, value) == (key :> value) @@ map

RECURSIVE SumOver(_, _, _)
SumOver(map, keys, field) ==
    IF keys = {} THEN 0
    ELSE LET k == CHOOSE x \in keys : TRUE
         IN map[k][field] + SumOver(map, keys \ {k}, field)

TotalKeyCount(s) == SumOver(s, DOMAIN s, "key_count")
TotalActiveMs(s) == SumOver(s, DOMAIN s, "active_typing_ms")

RECURSIVE SumMap(_, _)
SumMap(map, keys) ==
    IF keys = {} THEN 0
    ELSE LET k == CHOOSE x \in keys : TRUE
         IN map[k] + SumMap(map, keys \ {k})

\* ------------------------------------------------------------ capture context
is_excluded_app(ctx) ==
    IF ctx.bundle_id # NoneStr
    THEN to_ascii_lowercase(ctx.bundle_id) \in excluded_bundle_ids
    ELSE FALSE

is_auto_paused(ctx) == is_excluded_app(ctx) \/ ctx.secure_input

auto_pause_reason_of(ctx) ==
    IF ctx.secure_input THEN "secure_input"
    ELSE IF is_excluded_app(ctx) THEN "blacklist"
    ELSE NoneStr

app_id_from_context(ctx) == IF ctx.bundle_id # NoneStr THEN ctx.bundle_id ELSE ctx.app_name

stats_key_from_context(ctx, minute) ==
    [date |-> minute, app_name |-> app_id_from_context(ctx),
     window_title |-> ctx.window_title]

\* Fault variant of should_ignore_keypress: the gate drops every key once enabled.
should_ignore_when_enabled(ignore, is_key_combo) == ignore

\* Fault variant of should_ignore_keypress: the gate never drops a key.
should_ignore_never(ignore, is_key_combo) == FALSE

should_ignore_keypress(ignore, is_key_combo) == ignore /\ is_key_combo

\* Instant::duration_since saturates at zero.
duration_since(later, earlier) == IF later >= earlier THEN later - earlier ELSE 0

\* Fault variant of as_millis: rounds a partial millisecond up.
as_millis_rounded_up(d) == (d + MicrosPerMilli - 1) \div MicrosPerMilli

\* Duration::as_millis truncates.
as_millis(d) == d \div MicrosPerMilli

\* Duration::from_secs(secs.max(1))
config_session_gap(secs) == (IF secs >= 1 THEN secs ELSE 1) * MicrosPerSec

\* ------------------------------------------------------- shortcut analytics
RECURSIVE JoinUnderscore(_)
JoinUnderscore(parts) ==
    IF Len(parts) = 1 THEN parts[1]
    ELSE parts[1] \o "_" \o JoinUnderscore(Tail(parts))

\* Fault variant of normalize_shortcut_id: cmd is written first.
normalize_cmd_first(modifiers, key) ==
    JoinUnderscore(
        (IF modifiers.cmd THEN <<"cmd">> ELSE << >>)
        \o (IF modifiers.ctrl THEN <<"ctrl">> ELSE << >>)
        \o (IF modifiers.opt THEN <<"opt">> ELSE << >>)
        \o (IF modifiers.shift THEN <<"shift">> ELSE << >>)
        \o <<key>>)

\* ctrl -> opt -> shift -> cmd -> key; the fn modifier contributes nothing.
normalize_shortcut_id(modifiers, key) ==
    JoinUnderscore(
        (IF modifiers.ctrl THEN <<"ctrl">> ELSE << >>)
        \o (IF modifiers.opt THEN <<"opt">> ELSE << >>)
        \o (IF modifiers.shift THEN <<"shift">> ELSE << >>)
        \o (IF modifiers.cmd THEN <<"cmd">> ELSE << >>)
        \o <<key>>)

\* Fault variant of should_count_shortcut: the allowlist is consulted before the
\* blocklist.
should_count_allowlist_first(modifiers, shortcut_id) ==
    IF shortcut_allowlist # {} THEN shortcut_id \in shortcut_allowlist
    ELSE IF shortcut_id \in shortcut_blocklist THEN FALSE
    ELSE IF modifier_count(modifiers) < shortcut_min_modifiers THEN FALSE
    ELSE IF shortcut_require_cmd_or_ctrl /\ ~has_shortcut_modifier(modifiers) THEN FALSE
    ELSE IF /\ ~shortcut_allow_alt_only
            /\ ~modifiers.ctrl /\ ~modifiers.cmd /\ modifiers.opt
            /\ ~modifiers.shift /\ ~modifiers.function
         THEN FALSE
    ELSE TRUE

\* Priority: blocklist > allowlist > baseline modifier rules.
should_count_shortcut(modifiers, shortcut_id) ==
    IF shortcut_id \in shortcut_blocklist THEN FALSE
    ELSE IF shortcut_allowlist # {} THEN shortcut_id \in shortcut_allowlist
    ELSE IF modifier_count(modifiers) < shortcut_min_modifiers THEN FALSE
    ELSE IF shortcut_require_cmd_or_ctrl /\ ~has_shortcut_modifier(modifiers) THEN FALSE
    ELSE IF /\ ~shortcut_allow_alt_only
            /\ ~modifiers.ctrl /\ ~modifiers.cmd /\ modifiers.opt
            /\ ~modifiers.shift /\ ~modifiers.function
         THEN FALSE
    ELSE TRUE

\* ShortcutUsageValue::default()
ZeroUsage == [count |-> 0, by_app |-> EmptyMap]

\* u32::saturating_add, with MaxAppRef standing for u32::MAX.
saturating_add(a, b) == IF a + b > MaxAppRef THEN MaxAppRef ELSE a + b

\* Fault variant of count_shortcut: the per-app counter is left alone.
count_shortcut_total_only(usage, shortcut_id, app_id) ==
    LET entry == EntryOr(usage, shortcut_id, ZeroUsage)
    IN Put(usage, shortcut_id, [count |-> entry.count + 1, by_app |-> entry.by_app])

\* One admitted KeyDown: count and by_app[app_id] each go up by one (the u64 counters
\* are far from saturating).
count_shortcut(usage, shortcut_id, app_id) ==
    LET entry == EntryOr(usage, shortcut_id, ZeroUsage)
    IN Put(usage, shortcut_id,
           [count |-> entry.count + 1,
            by_app |-> Put(entry.by_app, app_id, EntryOr(entry.by_app, app_id, 0) + 1)])

update_shortcut_usage(usage, ctx, key, modifiers) ==
    LET shortcut_id == normalize_shortcut_id(modifiers, key)
    IN IF ~should_count_shortcut(modifiers, shortcut_id) THEN usage
       ELSE count_shortcut(usage, shortcut_id, app_id_from_context(ctx))

\* ------------------------------------------------------ compact chunk encoder
\* A compact event string is kept as the sequence of its ','-separated segments.
\* The segments a shortcut key contributes (the key "," is two empty segments).
KeySegments(key) == IF key = "," THEN <<"", "">> ELSE <<key>>

\* format!("{dt},{event_type},{key},{mask}")
format_compact_event(dt, event_type, key, modifiers) ==
    <<ToString(dt), event_type>> \o KeySegments(key) \o <<ToString(bitmask(modifiers))>>

\* Resolve app_ref for the app id, registering a dictionary entry on first use.
resolve_app_ref(app_id) ==
    IF app_id \in DOMAIN app_ref_by_app
    THEN [app_ref |-> app_ref_by_app[app_id], next_app_ref |-> next_app_ref,
          app_ref_by_app |-> app_ref_by_app, app_dict |-> app_dict]
    ELSE [app_ref |-> next_app_ref,
          next_app_ref |-> saturating_add(next_app_ref, 1),
          app_ref_by_app |-> Put(app_ref_by_app, app_id, next_app_ref),
          app_dict |-> Put(app_dict, next_app_ref, app_id)]

\* Fault variant of DropOldest: truncate(cap), which drops the newest chunks instead.
DropNewest(chunks, cap) ==
    IF Len(chunks) > cap THEN SubSeq(chunks, 1, cap) ELSE chunks

\* drain(0..overflow): drop the oldest chunks beyond the cap.
DropOldest(chunks, cap) ==
    IF Len(chunks) > cap
    THEN SubSeq(chunks, Len(chunks) - cap + 1, Len(chunks))
    ELSE chunks

push_finished_chunk(chunks, chunk) ==
    IF chunk.events = << >> THEN chunks
    ELSE DropOldest(Append(chunks, [v |-> 1, chunk_start_ms |-> chunk.chunk_start_ms,
                                    app_ref |-> chunk.app_ref, events |-> chunk.events]),
                    INPUT_CHUNK_MAX_STORED)

\* Fault variant of should_rotate: the event-count test is missing.
should_rotate_without_count(open, app_ref, now_ms) ==
    IF open # None
    THEN \/ open[1].app_ref # app_ref
         \/ now_ms - open[1].chunk_start_ms >= INPUT_CHUNK_WINDOW_MS
    ELSE TRUE

should_rotate(open, app_ref, now_ms) ==
    IF open # None
    THEN \/ open[1].app_ref # app_ref
         \/ now_ms - open[1].chunk_start_ms >= INPUT_CHUNK_WINDOW_MS
         \/ Len(open[1].events) >= INPUT_CHUNK_MAX_EVENTS
    ELSE TRUE

Max(a, b) == IF a >= b THEN a ELSE b

\* The encoder's effect, as the new values of the fields it writes.
append_input_event(ctx, event_type, key, modifiers, now_ms) ==
    LET r == resolve_app_ref(app_id_from_context(ctx))
        rotate == should_rotate(open_event_chunk, r.app_ref, now_ms)
        closed == IF rotate /\ open_event_chunk # None
                  THEN push_finished_chunk(event_chunks, open_event_chunk[1])
                  ELSE event_chunks
        open == IF rotate
                THEN [chunk_start_ms |-> now_ms, app_ref |-> r.app_ref, events |-> << >>]
                ELSE open_event_chunk[1]
        dt == Max(now_ms - open.chunk_start_ms, 0)
    IN [app_dict |-> r.app_dict, app_ref_by_app |-> r.app_ref_by_app,
        next_app_ref |-> r.next_app_ref, event_chunks |-> closed,
        open_event_chunk |->
            Some([open EXCEPT !.events = Append(@, format_compact_event(dt, event_type, key,
                                                                        modifiers))])]

RECURSIVE ClosedEvents(_)
ClosedEvents(chunks) ==
    IF chunks = << >> THEN 0 ELSE Len(Head(chunks).events) + ClosedEvents(Tail(chunks))

\* Number of compact events currently held, closed and open.
LogLen == ClosedEvents(event_chunks)
          + (IF open_event_chunk = None THEN 0 ELSE Len(open_event_chunk[1].events))

\* str::parse::<i64>() / parse::<u8>() over the decimal strings of 0..limit.
ParseNumber(text, limit) ==
    IF \E n \in 0..limit : ToString(n) = text
    THEN Some(CHOOSE n \in 0..limit : ToString(n) = text)
    ELSE None

\* The last item of splitn(4, ','): everything after the third comma.
RECURSIVE JoinComma(_)
JoinComma(segments) ==
    IF Len(segments) = 1 THEN segments[1]
    ELSE segments[1] \o "," \o JoinComma(Tail(segments))

\* parse_compact_event: None when a segment is missing or malformed.
parse_compact_event(raw) ==
    IF Len(raw) < 4 THEN None
    ELSE LET dt == ParseNumber(raw[1], INPUT_CHUNK_WINDOW_MS)
             modifier_mask == ParseNumber(JoinComma(SubSeq(raw, 4, Len(raw))), MaxMask)
         IN IF dt = None \/ raw[2] = "" \/ modifier_mask = None THEN None
            ELSE Some([dt |-> dt[1], event_type |-> raw[2], key |-> raw[3],
                       modifier_mask |-> modifier_mask[1]])

\* Fault variant of from_bitmask: cmd is read from the shift bit and shift from the cmd bit.
from_bitmask_cmd_shift_swapped(mask) ==
    Mods((mask % 2) = 1, ((mask \div 2) % 2) = 1, ((mask \div 8) % 2) = 1,
         ((mask \div 4) % 2) = 1, ((mask \div 16) % 2) = 1)

\* ModifierSnapshot::from_bitmask
from_bitmask(mask) ==
    Mods((mask % 2) = 1, ((mask \div 2) % 2) = 1, ((mask \div 4) % 2) = 1,
         ((mask \div 8) % 2) = 1, ((mask \div 16) % 2) = 1)

\* The modifier keys of rdev::Key and the ModifierState field each one drives.
ModifierKeys == {"ControlLeft", "ControlRight", "Alt", "AltGr", "ShiftLeft", "ShiftRight",
                 "MetaLeft", "MetaRight", "Function"}

ModifierField(key) ==
    CASE key \in {"ControlLeft", "ControlRight"} -> "ctrl"
      [] key \in {"Alt", "AltGr"} -> "alt"
      [] key \in {"ShiftLeft", "ShiftRight"} -> "shift"
      [] key \in {"MetaLeft", "MetaRight"} -> "meta"
      [] key = "Function" -> "function"

\* ModifierState::default
ModifierState_default ==
    [ctrl |-> FALSE, alt |-> FALSE, shift |-> FALSE, meta |-> FALSE, function |-> FALSE]

\* ModifierState::is_modifier_key
is_modifier_key(key) == key \in ModifierKeys

\* ModifierState::update
ModifierState_update(state, key, pressed) ==
    IF key \in ModifierKeys THEN [state EXCEPT ![ModifierField(key)] = pressed] ELSE state

\* ModifierState::snapshot
ModifierState_snapshot(state) ==
    Mods(state.ctrl, state.alt, state.shift, state.meta, state.function)

\* The 'd' events of one chunk, replayed through the normalizer and the filter.
RECURSIVE ReplayEvents(_, _, _)
ReplayEvents(usage, events, app_id) ==
    IF events = << >> THEN usage
    ELSE LET parsed == parse_compact_event(Head(events))
             e == parsed[1]
             modifiers == from_bitmask(e.modifier_mask)
             shortcut_id == normalize_shortcut_id(modifiers, e.key)
             next == IF parsed = None THEN usage
                     ELSE IF e.event_type # "d" THEN usage
                     ELSE IF ~should_count_shortcut(modifiers, shortcut_id) THEN usage
                     ELSE count_shortcut(usage, shortcut_id, app_id)
         IN ReplayEvents(next, Tail(events), app_id)

RECURSIVE ReplayChunks(_, _, _)
ReplayChunks(usage, chunks, dict) ==
    IF chunks = << >> THEN usage
    ELSE LET chunk == Head(chunks)
             app_id == EntryOr(dict, chunk.app_ref, "app:" \o ToString(chunk.app_ref))
         IN ReplayChunks(ReplayEvents(usage, chunk.events, app_id), Tail(chunks), dict)

rebuild_shortcut_usage_from_chunks(chunks, dict) == ReplayChunks(EmptyMap, chunks, dict)

\* ------------------------------------------------------------- JSON storage
\* StoredInputAnalytics::default()
NoAnalytics == [shortcut_usage |-> EmptyMap, app_dict |-> EmptyMap, next_app_ref |-> 0,
                event_chunks |-> << >>]

\* Byte order of the strings that occur in rows and leaderboards (str::cmp).
Collation == <<"", "2026-02-09 23:59", "2026-02-10 00:00", "2026-02-10 00:01", "Doc",
               "Unknown", "Vault", "cmd_,", "cmd_c", "cmd_x", "cmd_z",
               "com.1password.1password", "com.test.editor">>

StrIndex(s) == CHOOSE i \in 1..Len(Collation) : Collation[i] = s

\* (&a.date, &a.app_name, &a.window_title).cmp(&(&b.date, &b.app_name, &b.window_title))
RowLess(a, b) ==
    \/ StrIndex(a.date) < StrIndex(b.date)
    \/ /\ a.date = b.date
       /\ \/ StrIndex(a.app_name) < StrIndex(b.app_name)
          \/ /\ a.app_name = b.app_name
             /\ StrIndex(a.window_title) < StrIndex(b.window_title)

\* Fault variant of RowKey: the window title is left out of the key.
RowKeyWithoutTitle(row) == [date |-> row.date, app_name |-> row.app_name,
                            window_title |-> ""]

\* StatsKey { date: row.date, app_name: row.app_name, window_title: row.window_title }
RowKey(row) == [date |-> row.date, app_name |-> row.app_name,
                window_title |-> row.window_title]

\* rows.sort_by(..) over rows with pairwise different keys.
RECURSIVE SortRows(_)
SortRows(rows) ==
    IF rows = {} THEN << >>
    ELSE LET first == CHOOSE r \in rows : \A o \in rows \ {r} : RowLess(r, o)
         IN <<first>> \o SortRows(rows \ {first})

\* JsonFileStorage::stats_to_rows
stats_to_rows(map) ==
    SortRows({[date |-> k.date, app_name |-> k.app_name, window_title |-> k.window_title,
               active_typing_ms |-> map[k].active_typing_ms,
               key_count |-> map[k].key_count,
               session_count |-> map[k].session_count] : k \in DOMAIN map})

\* JsonFileStorage::rows_to_stats: rows sharing a key are summed.
RECURSIVE RowsInto(_, _)
RowsInto(map, rows) ==
    IF rows = << >> THEN map
    ELSE LET row == Head(rows)
             entry == EntryOr(map, RowKey(row), ZeroStats)
         IN RowsInto(Put(map, RowKey(row),
                         [active_typing_ms |-> entry.active_typing_ms + row.active_typing_ms,
                          key_count |-> entry.key_count + row.key_count,
                          session_count |-> entry.session_count + row.session_count]),
                     Tail(rows))

rows_to_stats(rows) == RowsInto(EmptyMap, rows)

\* JsonFileStorage::date_prefix: date[..10], None for a date shorter than ten bytes.
date_prefix(date) ==
    CASE date = "2026-02-09 23:59" -> Some("2026-02-09")
      [] date = "2026-02-10 00:00" -> Some("2026-02-10")
      [] date = "2026-02-10 00:01" -> Some("2026-02-10")
      [] OTHER -> None

\* JsonFileStorage::date_prefix_from_timestamp_ms. The model counts wall-clock
\* milliseconds from 2026-02-09 00:00 local time.
date_prefix_from_timestamp_ms(timestamp_ms) ==
    CASE timestamp_ms \div MsPerDay = 0 -> Some("2026-02-09")
      [] timestamp_ms \div MsPerDay = 1 -> Some("2026-02-10")
      [] OTHER -> None

\* The rows of a sequence whose date has the given prefix, in order.
RowsOfDay(rows, prefix) == SelectSeq(rows, LAMBDA row : date_prefix(row.date) = Some(prefix))

\* The files of a directory listing, one after the other (read_dir gives no order).
RECURSIVE FilesInSomeOrder(_, _)
FilesInSomeOrder(files, names) ==
    IF names = {} THEN << >>
    ELSE LET name == CHOOSE n \in names : TRUE
         IN <<files[name]>> \o FilesInSomeOrder(files, names \ {name})

RECURSIVE Flatten(_)
Flatten(seqs) == IF seqs = << >> THEN << >> ELSE Head(seqs) \o Flatten(Tail(seqs))

\* JsonFileStorage::load_stats: the legacy file first, then every daily shard. (The
\* analytics files match the suffix too and parse as zero rows.)
load_stats(files, legacy) ==
    rows_to_stats((IF legacy = None THEN << >> ELSE legacy[1])
                  \o Flatten(FilesInSomeOrder(files, DOMAIN files)))

\* Fault variant of save_stats: the legacy monolithic file is left in place.
save_stats_keeping_legacy(files, map) ==
    LET rows == stats_to_rows(map)
        grouped == {date_prefix(rows[i].date)[1] :
                        i \in {j \in 1..Len(rows) : date_prefix(rows[j].date) # None}}
    IN [stats_files |-> [p \in DOMAIN files \cup grouped |->
                            IF p \in grouped THEN RowsOfDay(rows, p) ELSE files[p]],
        legacy_stats_file |-> legacy_stats_file]

\* JsonFileStorage::save_stats: the directory after it. One file per date prefix is
\* written over; shards of other dates stay; the legacy file is removed.
save_stats(files, map) ==
    LET rows == stats_to_rows(map)
        grouped == {date_prefix(rows[i].date)[1] :
                        i \in {j \in 1..Len(rows) : date_prefix(rows[j].date) # None}}
    IN [stats_files |-> [p \in DOMAIN files \cup grouped |->
                            IF p \in grouped THEN RowsOfDay(rows, p) ELSE files[p]],
        legacy_stats_file |-> None]

\* The date prefixes save_stats groups the rows of a table under.
StatsDates(map) ==
    LET rows == stats_to_rows(map)
    IN {date_prefix(rows[i].date)[1] :
            i \in {j \in 1..Len(rows) : date_prefix(rows[j].date) # None}}

\* JsonFileStorage::save_stats returning Err from the write or the rename of one shard:
\* the shards written before it (done, in HashMap order) are on disk, the others and
\* the legacy file are as they were.
save_stats_failing(files, map, done) ==
    [stats_files |-> [p \in DOMAIN files \cup done |->
                         IF p \in done THEN RowsOfDay(stats_to_rows(map), p) ELSE files[p]],
     legacy_stats_file |-> legacy_stats_file]

\* StoredShortcutUsage values summed key by key (saturating_add).
MergeCounts(into, from) ==
    [k \in DOMAIN into \cup DOMAIN from |->
        saturating_add(EntryOr(into, k, 0), EntryOr(from, k, 0))]

\* JsonFileStorage::merge_analytics
merge_analytics(into, from) ==
    [shortcut_usage |->
        [id \in DOMAIN into.shortcut_usage \cup DOMAIN from.shortcut_usage |->
            LET a == EntryOr(into.shortcut_usage, id, ZeroUsage)
                b == EntryOr(from.shortcut_usage, id, ZeroUsage)
            IN [count |-> saturating_add(a.count, b.count),
                by_app |-> MergeCounts(a.by_app, b.by_app)]],
     app_dict |-> into.app_dict @@ from.app_dict,
     next_app_ref |-> Max(into.next_app_ref, from.next_app_ref),
     event_chunks |-> into.event_chunks \o from.event_chunks]

RECURSIVE MergeAll(_, _)
MergeAll(into, payloads) ==
    IF payloads = << >> THEN into
    ELSE MergeAll(merge_analytics(into, Head(payloads)), Tail(payloads))

\* Vec::sort_by(chunk_start_ms), a stable sort: insertion after the last chunk that
\* does not start later.
RECURSIVE InsertChunk(_, _)
InsertChunk(sorted, chunk) ==
    IF sorted = << >> THEN <<chunk>>
    ELSE IF sorted[Len(sorted)].chunk_start_ms <= chunk.chunk_start_ms
         THEN Append(sorted, chunk)
         ELSE Append(InsertChunk(SubSeq(sorted, 1, Len(sorted) - 1), chunk),
                     sorted[Len(sorted)])

RECURSIVE InsertAll(_, _)
InsertAll(sorted, chunks) ==
    IF chunks = << >> THEN sorted
    ELSE InsertAll(InsertChunk(sorted, Head(chunks)), Tail(chunks))

\* A sequence already in ascending order is its own stable sort.
SortChunks(chunks) ==
    IF \A i \in 1..(Len(chunks) - 1) :
           chunks[i].chunk_start_ms <= chunks[i + 1].chunk_start_ms
    THEN chunks
    ELSE InsertAll(<< >>, chunks)

\* JsonFileStorage::load_input_analytics
load_input_analytics(files, legacy) ==
    LET merged == MergeAll(IF legacy = None THEN NoAnalytics
                           ELSE merge_analytics(NoAnalytics, legacy[1]),
                           FilesInSomeOrder(files, DOMAIN files))
    IN [merged EXCEPT !.event_chunks = SortChunks(@)]

\* Fault variant of ChunksOfDay: every day's file is given all the chunks.
ChunksOfEveryDay(chunks, day) == chunks

\* The chunks of a sequence that start on the given local day, in order.
ChunksOfDay(chunks, day) ==
    SelectSeq(chunks,
              LAMBDA c : date_prefix_from_timestamp_ms(c.chunk_start_ms) = Some(day))

ChunkRefs(chunks) == {chunks[i].app_ref : i \in 1..Len(chunks)}

\* JsonFileStorage::save_input_analytics: the directory after it. Shards of days without
\* chunks are removed, one payload per day with chunks is written, the legacy file is
\* removed.
save_input_analytics(analytics) ==
    LET chunks == analytics.event_chunks
        next_dates == {date_prefix_from_timestamp_ms(chunks[i].chunk_start_ms)[1] :
                          i \in {j \in 1..Len(chunks) :
                                   date_prefix_from_timestamp_ms(chunks[j].chunk_start_ms)
                                       # None}}
    IN [analytics_files |->
            [day \in next_dates |->
                LET day_chunks == ChunksOfDay(chunks, day)
                    app_refs == ChunkRefs(day_chunks)
                IN [shortcut_usage |-> EmptyMap,
                    app_dict |-> [r \in DOMAIN analytics.app_dict \cap app_refs |->
                                     analytics.app_dict[r]],
                    next_app_ref |-> analytics.next_app_ref,
                    event_chunks |-> day_chunks]],
        legacy_analytics_file |-> None]

\* The days save_input_analytics writes a payload for.
AnalyticsDates(analytics) ==
    {date_prefix_from_timestamp_ms(analytics.event_chunks[i].chunk_start_ms)[1] :
        i \in {j \in 1..Len(analytics.event_chunks) :
                 date_prefix_from_timestamp_ms(analytics.event_chunks[j].chunk_start_ms)
                     # None}}

\* JsonFileStorage::save_input_analytics returning Err: the stale shards in removed are
\* gone and the days in written hold their new payload; the legacy file stays.
save_input_analytics_failing(analytics, removed, written) ==
    LET full == save_input_analytics(analytics).analytics_files
    IN [analytics_files |->
            [day \in (DOMAIN analytics_files \ removed) \cup written |->
                IF day \in written THEN full[day] ELSE analytics_files[day]],
        legacy_analytics_file |-> legacy_analytics_file]

\* The ways save_input_analytics can fail over the directory as it stands: during the
\* removal of stale shards (nothing written yet), or at the write of one payload (all
\* stale shards removed, some payloads written).
AnalyticsFailures(analytics) ==
    LET stale == DOMAIN analytics_files \ AnalyticsDates(analytics)
    IN {<<removed, {}>> : removed \in SUBSET stale}
       \cup {<<stale, written>> : written \in SUBSET AnalyticsDates(analytics)
                                             \ {AnalyticsDates(analytics)}}

\* ------------------------------------------------------------ event handlers
\* A step that is not a command of the control surface: nothing is returned to the
\* frontend and the configuration file is not written.
NoCommand == reply' = None /\ UNCHANGED app_config

\* Fault variant of insert_is_new: every insert reports a new value (no repeat filter).
insert_always_new(set, value) == TRUE

\* HashSet::insert returns true when the value was not present.
insert_is_new(set, value) == value \notin set

\* Fault variant of starts_session: a delta equal to the gap starts a session too.
starts_session_at_gap(delta, gap) == delta >= gap

\* delta > session_gap
starts_session(delta, gap) == delta > gap

\* Fault variant of reset_active_typing_state: the reset leaves both fields as they are.
reset_keeps_typing_state ==
    [pressed_non_modifier_keys |-> pressed_non_modifier_keys,
     active_stats_key |-> active_stats_key, modifier_state |-> modifier_state]

\* reset_active_typing_state: the pressed set, the active key and (non-macOS build) the
\* modifier state after it.
reset_active_typing_state ==
    [pressed_non_modifier_keys |-> {}, active_stats_key |-> None,
     modifier_state |-> ModifierState_default]

\* History of one physical key since its last KeyUp: how many KeyDowns arrived and how
\* much key_count grew over them (2 stands for "2 or more"), whether a Tick saw
\* pause/auto-pause in between. A run that met a KeyDown outside the claim's conditions
\* (user-paused, ignore-combos on, auto-paused context) is collapsed to TaintedRun.
FreshRun == [downs |-> 0, counted |-> 0, tainted |-> FALSE, suspendedTick |-> FALSE]
TaintedRun == [downs |-> 2, counted |-> 0, tainted |-> TRUE, suspendedTick |-> FALSE]

Min(a, b) == IF a <= b THEN a ELSE b

RunAfterKeyDown(r, bad, increase) ==
    IF r.tainted \/ bad THEN TaintedRun
    ELSE [r EXCEPT !.downs = Min(@ + 1, 2), !.counted = Min(@ + increase, 2)]

\* The monotonic time spent so far with at least one key in the pressed set, once the
\* clock has moved on to at (None where the history is not recorded).
HeldUntil(at) ==
    IF held_micros = None THEN None
    ELSE Some(held_micros[1] + (IF pressed_non_modifier_keys # {} THEN at - clock ELSE 0))

\* apply_non_modifier_key_down
KeyDown(physical_key_id, modifiers, is_key_combo, ctx, at, now_ms, minute) ==
    LET shortcut_key == normalize_macos_keycode(physical_key_id)
        ap == is_auto_paused(ctx)
        gated == should_ignore_keypress(ignore_key_combos, is_key_combo)
        dropped == paused \/ ap \/ gated
        counted == ~dropped /\ insert_is_new(pressed_non_modifier_keys, physical_key_id)
        enc == append_input_event(ctx, "d", shortcut_key, modifiers, now_ms)
        shortcut_id == normalize_shortcut_id(modifiers, shortcut_key)
        key == stats_key_from_context(ctx, minute)
        delta == duration_since(at, last_typing_instant)
        entry == EntryOr(stats, key, ZeroStats)
    IN /\ at >= clock /\ at <= MaxClock
       /\ clock' = at
       /\ auto_paused' = ap
       /\ auto_pause_reason' = auto_pause_reason_of(ctx)
       /\ held_micros' = HeldUntil(at)
       /\ UNCHANGED <<paused, configVars, ruleVars, loadedIds, diskVars, runtimeVars,
                      modifierVars, last_tick_instant, lockVars, unloaded>>
       /\ NoCommand
       /\ IF counted
          THEN /\ budget > 0
               /\ budget' = budget - 1
               /\ pressed_non_modifier_keys' = pressed_non_modifier_keys \cup {physical_key_id}
               /\ app_dict' = enc.app_dict
               /\ app_ref_by_app' = enc.app_ref_by_app
               /\ next_app_ref' = enc.next_app_ref
               /\ event_chunks' = enc.event_chunks
               /\ open_event_chunk' = enc.open_event_chunk
               /\ shortcut_usage' = update_shortcut_usage(shortcut_usage, ctx, shortcut_key,
                                                          modifiers)
               /\ admitted' = IF should_count_shortcut(modifiers, shortcut_id)
                              THEN admitted \cup {shortcut_id} ELSE admitted
               /\ stats' = Put(stats, key,
                               [entry EXCEPT !.key_count = @ + 1,
                                             !.session_count =
                                                 @ + B2N(starts_session(delta, session_gap))])
               /\ last_typing_instant' = at
               /\ active_stats_key' = Some(key)
          ELSE UNCHANGED <<typingVars, dictVars, chunkVars, shortcut_usage, admitted, budget>>
       /\ run' = [run EXCEPT ![physical_key_id] =
                     RunAfterKeyDown(@, paused \/ ignore_key_combos \/ ap,
                                     TotalKeyCount(stats') - TotalKeyCount(stats))]
       /\ afterSuspendedTick' = (~counted /\ afterSuspendedTick)
       /\ afterDroppedCombo' =
            IF counted THEN "no"
            ELSE IF gated THEN (IF pressed_non_modifier_keys = {} THEN "idle" ELSE "held")
            ELSE afterDroppedCombo

\* Fault variant of KeyUp: the active key is cleared on every KeyUp, whether or not a
\* key is still held.
KeyUp_clearing_active_key(physical_key_id, modifiers, ctx, now_ms) ==
    LET shortcut_key == normalize_macos_keycode(physical_key_id)
        enc == append_input_event(ctx, "u", shortcut_key, modifiers, now_ms)
        left == pressed_non_modifier_keys \ {physical_key_id}
    IN /\ budget > 0
       /\ budget' = budget - 1
       /\ app_dict' = enc.app_dict
       /\ app_ref_by_app' = enc.app_ref_by_app
       /\ next_app_ref' = enc.next_app_ref
       /\ event_chunks' = enc.event_chunks
       /\ open_event_chunk' = enc.open_event_chunk
       /\ pressed_non_modifier_keys' = left
       /\ active_stats_key' = None
       /\ UNCHANGED <<stats, last_typing_instant, pauseVars, configVars, ruleVars,
                      shortcut_usage, clock, afterSuspendedTick, afterDroppedCombo, admitted,
                      loadedIds, diskVars, runtimeVars, modifierVars, tickVars, lockVars, unloaded>>
       /\ NoCommand
       /\ run' = [run EXCEPT ![physical_key_id] = FreshRun]

\* apply_non_modifier_key_up
KeyUp(physical_key_id, modifiers, ctx, now_ms) ==
    LET shortcut_key == normalize_macos_keycode(physical_key_id)
        enc == append_input_event(ctx, "u", shortcut_key, modifiers, now_ms)
        left == pressed_non_modifier_keys \ {physical_key_id}
    IN /\ budget > 0
       /\ budget' = budget - 1
       /\ app_dict' = enc.app_dict
       /\ app_ref_by_app' = enc.app_ref_by_app
       /\ next_app_ref' = enc.next_app_ref
       /\ event_chunks' = enc.event_chunks
       /\ open_event_chunk' = enc.open_event_chunk
       /\ pressed_non_modifier_keys' = left
       /\ active_stats_key' = IF left = {} THEN None ELSE active_stats_key
       /\ UNCHANGED <<stats, last_typing_instant, pauseVars, configVars, ruleVars,
                      shortcut_usage, clock, afterSuspendedTick, afterDroppedCombo, admitted,
                      loadedIds, diskVars, runtimeVars, modifierVars, tickVars, lockVars, unloaded>>
       /\ NoCommand
       /\ run' = [run EXCEPT ![physical_key_id] = FreshRun]

\* accumulate_active_typing_for_tick: the bucket table after the tick.
accumulate_active_typing_for_tick(elapsed) ==
    IF pressed_non_modifier_keys = {} THEN stats
    ELSE IF active_stats_key = None THEN stats
    ELSE LET key == active_stats_key[1]
             entry == EntryOr(stats, key, ZeroStats)
         IN Put(stats, key, [entry EXCEPT !.active_typing_ms = @ + as_millis(elapsed)])

\* Fault variant of tick_accumulates: the tick records its instant before the early
\* returns, so also when no key is held.
tick_accumulates_before_returns == TRUE

\* Whether accumulate_active_typing_for_tick reaches its last two statements.
tick_accumulates == pressed_non_modifier_keys # {} /\ active_stats_key # None

\* Fault variant of tick_suspended: the Tick arm tests the user pause only.
tick_suspended_by_user_only(is_paused, is_auto) == is_paused

\* if state.paused || state.auto_paused
tick_suspended(is_paused, is_auto) == is_paused \/ is_auto

\* apply_collector_event, Tick arm: everything but the chunk log and the data directory.
apply_tick(elapsed, ctx, at) ==
    LET ap == is_auto_paused(ctx)
        suspended == tick_suspended(paused, ap)
        reset == reset_active_typing_state
    IN /\ at >= clock /\ at <= MaxClock
       /\ clock' = at
       /\ held_micros' = HeldUntil(at)
       /\ auto_paused' = ap
       /\ auto_pause_reason' = auto_pause_reason_of(ctx)
       /\ IF suspended
          THEN /\ pressed_non_modifier_keys' = reset.pressed_non_modifier_keys
               /\ active_stats_key' = reset.active_stats_key
               /\ modifier_state' = reset.modifier_state
               /\ UNCHANGED <<stats, last_typing_instant>>
          ELSE /\ stats' = accumulate_active_typing_for_tick(elapsed)
               /\ TotalActiveMs(stats') <= MaxActiveMs
               /\ last_typing_instant' = IF tick_accumulates THEN at ELSE last_typing_instant
               /\ UNCHANGED <<pressed_non_modifier_keys, active_stats_key, modifier_state>>
       /\ UNCHANGED <<paused, configVars, ruleVars, dictVars, shortcut_usage,
                      afterDroppedCombo, admitted, loadedIds, budget, runtimeVars,
                      held_modifier_keys, lockVars, unloaded>>
       /\ NoCommand
       /\ run' = [k \in KeyboardKeys |->
                     IF run[k].downs > 0 /\ ~run[k].tainted /\ (paused \/ ap)
                     THEN [run[k] EXCEPT !.suspendedTick = TRUE]
                     ELSE run[k]]
       /\ afterSuspendedTick' = (afterSuspendedTick \/ paused \/ ap)

\* A Tick event on its own: the wall clock has not left the open chunk's window and no
\* periodic save is due.
Tick(elapsed, ctx, at) ==
    /\ apply_tick(elapsed, ctx, at)
    /\ UNCHANGED <<chunkVars, diskVars, last_tick_instant>>

\* ------------------------------------------------------------ control surface
\* CollectorState::set_paused
SetPaused(value) ==
    LET reset == reset_active_typing_state
    IN /\ paused' = value
       /\ pressed_non_modifier_keys' =
            IF value THEN reset.pressed_non_modifier_keys ELSE pressed_non_modifier_keys
       /\ active_stats_key' = IF value THEN reset.active_stats_key ELSE active_stats_key
       /\ modifier_state' = IF value THEN reset.modifier_state ELSE modifier_state
       /\ UNCHANGED <<stats, last_typing_instant, auto_paused, auto_pause_reason, configVars,
                      ruleVars, dictVars, chunkVars, shortcut_usage, clock,
                      afterSuspendedTick, afterDroppedCombo, admitted, loadedIds, budget,
                      diskVars, runtimeVars, held_modifier_keys, tickVars, lockVars, unloaded>>
       /\ run' = [k \in KeyboardKeys |->
                     IF value /\ run[k].downs > 0 THEN TaintedRun ELSE run[k]]

\* CollectorState::set_ignore_key_combos
SetIgnoreKeyCombos(value) ==
    /\ ignore_key_combos' = value
    /\ UNCHANGED <<typingVars, pauseVars, session_gap, excluded_bundle_ids, ruleVars,
                   dictVars, chunkVars, shortcut_usage, clock, historyVars, budget, diskVars,
                   runtimeVars, modifierVars, tickVars, lockVars, unloaded>>

\* CollectorState::set_shortcut_rules
SetShortcutRules(require_cmd_or_ctrl, allow_alt_only, min_modifiers, allowlist, blocklist) ==
    /\ shortcut_require_cmd_or_ctrl' = require_cmd_or_ctrl
    /\ shortcut_allow_alt_only' = allow_alt_only
    /\ shortcut_min_modifiers' = Max(min_modifiers, 1)
    /\ shortcut_allowlist' = normalize_id_list(allowlist)
    /\ shortcut_blocklist' = normalize_id_list(blocklist)
    /\ UNCHANGED <<typingVars, pauseVars, configVars, dictVars, chunkVars, shortcut_usage,
                   clock, historyVars, budget, diskVars, runtimeVars, modifierVars, tickVars,
                   lockVars, unloaded>>

\* CollectorState::set_excluded_bundle_ids
SetExcludedBundleIds(bundle_ids) ==
    /\ excluded_bundle_ids' = normalize_id_list(bundle_ids)
    /\ UNCHANGED <<typingVars, pauseVars, session_gap, ignore_key_combos, ruleVars, dictVars,
                   chunkVars, shortcut_usage, clock, historyVars, budget, diskVars,
                   runtimeVars, modifierVars, tickVars, lockVars, unloaded>>

\* -------------------------------------------------------------- construction
\* app_dict.iter().map(|(app_ref, app_id)| (app_id, app_ref)).collect()
InvertDict(dict) ==
    [a \in {dict[r] : r \in DOMAIN dict} |-> CHOOSE r \in DOMAIN dict : dict[r] = a]

\* new_collector_state: the fields of the state built from the config, the loaded
\* detail rows and the loaded analytics, at monotonic instant now.
new_collector_state(config, loaded_stats, analytics, now) ==
    [stats |-> loaded_stats,
     last_typing_instant |-> now,
     last_tick_instant |-> now,
     session_gap |-> config_session_gap(config.session_gap_secs),
     paused |-> FALSE,
     auto_paused |-> FALSE,
     auto_pause_reason |-> NoneStr,
     keyboard_active |-> TRUE,
     modifier_state |-> ModifierState_default,
     ignore_key_combos |-> config.ignore_key_combos,
     menu_bar_display_mode |-> config.menu_bar_display_mode,
     last_error |-> NoneStr,
     excluded_bundle_ids |-> {to_ascii_lowercase(v) : v \in config.excluded_bundle_ids},
     pressed_non_modifier_keys |-> {},
     active_stats_key |-> None,
     app_dict |-> analytics.app_dict,
     app_ref_by_app |-> InvertDict(analytics.app_dict),
     next_app_ref |-> Max(analytics.next_app_ref, 1),
     event_chunks |-> analytics.event_chunks,
     open_event_chunk |-> None,
     shortcut_require_cmd_or_ctrl |-> config.shortcut_require_cmd_or_ctrl,
     shortcut_allow_alt_only |-> config.shortcut_allow_alt_only,
     shortcut_min_modifiers |-> Max(config.shortcut_min_modifiers, 1),
     shortcut_allowlist |-> {to_ascii_lowercase(v) : v \in config.shortcut_allowlist},
     shortcut_blocklist |-> {to_ascii_lowercase(v) : v \in config.shortcut_blocklist}]

\* The tail of new_collector_state: shortcut_usage, rebuilt from the chunks under the
\* rules just configured when the loaded map is empty and chunks exist.
ConstructedUsage(config, analytics) ==
    IF analytics.shortcut_usage = EmptyMap /\ analytics.event_chunks # << >>
    THEN rebuild_shortcut_usage_from_chunks(analytics.event_chunks, analytics.app_dict)
    ELSE analytics.shortcut_usage

\* The first process start: the state new_collector_state builds over the data
\* directory already fixed by the disk variables.
Started(config) ==
    LET analytics == load_input_analytics(analytics_files, legacy_analytics_file)
        s == new_collector_state(config, load_stats(stats_files, legacy_stats_file),
                                 analytics, 0)
    IN /\ stats = s.stats
       /\ clock = 0
       /\ last_typing_instant = s.last_typing_instant
       /\ session_gap = s.session_gap
       /\ paused = s.paused
       /\ auto_paused = s.auto_paused
       /\ auto_pause_reason = s.auto_pause_reason
       /\ ignore_key_combos = s.ignore_key_combos
       /\ excluded_bundle_ids = s.excluded_bundle_ids
       /\ pressed_non_modifier_keys = s.pressed_non_modifier_keys
       /\ active_stats_key = s.active_stats_key
       /\ app_dict = s.app_dict
       /\ app_ref_by_app = s.app_ref_by_app
       /\ next_app_ref = s.next_app_ref
       /\ event_chunks = s.event_chunks
       /\ open_event_chunk = s.open_event_chunk
       /\ shortcut_require_cmd_or_ctrl = s.shortcut_require_cmd_or_ctrl
       /\ shortcut_allow_alt_only = s.shortcut_allow_alt_only
       /\ shortcut_min_modifiers = s.shortcut_min_modifiers
       /\ shortcut_allowlist = s.shortcut_allowlist
       /\ shortcut_blocklist = s.shortcut_blocklist
       /\ shortcut_usage = ConstructedUsage(config, analytics)
       /\ run = [k \in KeyboardKeys |-> FreshRun]
       /\ afterSuspendedTick = FALSE
       /\ afterDroppedCombo = "no"
       /\ admitted = {}
       /\ loadedIds = DOMAIN shortcut_usage
       /\ lock_poisoned = FALSE
       /\ listener_running = TRUE
       /\ keyboard_active = s.keyboard_active
       /\ last_error = s.last_error
       /\ menu_bar_display_mode = s.menu_bar_display_mode
       /\ app_config = config
       /\ reply = None
       /\ modifier_state = s.modifier_state
       /\ held_modifier_keys = {}
       /\ last_tick_instant = s.last_tick_instant
       /\ inner_lock = None
       /\ config_lock = None
       /\ thread_pc = [t \in Threads |-> <<>>]
       /\ unloaded = AllLoaded

\* A data directory without detail rows, holding the given analytics as the legacy
\* monolithic analytics file (no file for the default payload).
DataDirWith(analytics) ==
    /\ stats_files = EmptyMap
    /\ legacy_stats_file = None
    /\ analytics_files = EmptyMap
    /\ legacy_analytics_file = IF analytics = NoAnalytics THEN None ELSE Some(analytics)

\* new_collector_state over a data directory that holds no detail rows and the given
\* analytics.
NewCollectorState(config, analytics) ==
    /\ DataDirWith(analytics)
    /\ budget = MaxLog
    /\ held_micros = None
    /\ Started(config)

\* ------------------------------------------------------ flush, clear, restart
\* flush_expired_open_chunk: the log after it.
flush_expired_open_chunk(chunks, open, now_ms) ==
    IF open = None THEN [event_chunks |-> chunks, open_event_chunk |-> open]
    ELSE IF now_ms - open[1].chunk_start_ms < INPUT_CHUNK_WINDOW_MS
    THEN [event_chunks |-> chunks, open_event_chunk |-> open]
    ELSE [event_chunks |-> push_finished_chunk(chunks, open[1]), open_event_chunk |-> None]

\* build_stored_input_analytics: the open chunk is closed into the ring, then the
\* payload is copied out of the state.
build_stored_input_analytics(chunks, open) ==
    LET closed == IF open # None THEN push_finished_chunk(chunks, open[1]) ELSE chunks
    IN [event_chunks |-> closed, open_event_chunk |-> None,
        analytics |-> [shortcut_usage |-> shortcut_usage, app_dict |-> app_dict,
                       next_app_ref |-> next_app_ref, event_chunks |-> closed]]

\* One pass of the tick thread's loop: flush_expired_open_chunk at wall-clock now_ms, the
\* Tick event, and the periodic save when the flush interval has run out (due).
TickLoop(elapsed, ctx, at, now_ms, due) ==
    LET expired == flush_expired_open_chunk(event_chunks, open_event_chunk, now_ms)
        built == build_stored_input_analytics(expired.event_chunks,
                                              expired.open_event_chunk)
    IN /\ apply_tick(elapsed, ctx, at)
       /\ last_tick_instant' = at
       /\ IF due
          THEN LET saved == save_stats(stats_files, stats')
                   written == save_input_analytics(built.analytics)
               IN /\ event_chunks' = built.event_chunks
                  /\ open_event_chunk' = built.open_event_chunk
                  /\ stats_files' = saved.stats_files
                  /\ legacy_stats_file' = saved.legacy_stats_file
                  /\ analytics_files' = written.analytics_files
                  /\ legacy_analytics_file' = written.legacy_analytics_file
          ELSE /\ event_chunks' = expired.event_chunks
               /\ open_event_chunk' = expired.open_event_chunk
               /\ UNCHANGED diskVars

\* One pass of the tick thread's loop whose periodic save is due and fails: save_stats
\* fails after the shards in done (when stats_fails), save_input_analytics fails as
\* failure says (when it is not None); both results are dropped (let _ =).
TickLoopSaveFails(elapsed, ctx, at, now_ms, stats_fails, done, failure) ==
    LET expired == flush_expired_open_chunk(event_chunks, open_event_chunk, now_ms)
        built == build_stored_input_analytics(expired.event_chunks,
                                              expired.open_event_chunk)
        saved == IF stats_fails THEN save_stats_failing(stats_files, stats', done)
                 ELSE save_stats(stats_files, stats')
        written == IF failure = None THEN save_input_analytics(built.analytics)
                   ELSE save_input_analytics_failing(built.analytics, failure[1][1],
                                                     failure[1][2])
    IN /\ ~lock_poisoned
       /\ stats_fails \/ failure # None
       /\ failure # None => failure[1] \in AnalyticsFailures(built.analytics)
       /\ apply_tick(elapsed, ctx, at)
       /\ last_tick_instant' = at
       /\ stats_fails => done \subseteq StatsDates(stats') /\ done # StatsDates(stats')
       /\ event_chunks' = built.event_chunks
       /\ open_event_chunk' = built.open_event_chunk
       /\ stats_files' = saved.stats_files
       /\ legacy_stats_file' = saved.legacy_stats_file
       /\ analytics_files' = written.analytics_files
       /\ legacy_analytics_file' = written.legacy_analytics_file

\* CollectorState::clear_stats
ClearStats ==
    LET saved == save_stats(stats_files, EmptyMap)
        written == save_input_analytics([shortcut_usage |-> EmptyMap, app_dict |-> app_dict,
                                         next_app_ref |-> next_app_ref,
                                         event_chunks |-> << >>])
    IN /\ stats' = EmptyMap
       /\ shortcut_usage' = EmptyMap
       /\ event_chunks' = << >>
       /\ open_event_chunk' = None
       /\ stats_files' = saved.stats_files
       /\ legacy_stats_file' = saved.legacy_stats_file
       /\ analytics_files' = written.analytics_files
       /\ legacy_analytics_file' = written.legacy_analytics_file
       /\ UNCHANGED <<last_typing_instant, pressed_non_modifier_keys, active_stats_key,
                      pauseVars, configVars, ruleVars, dictVars, clock, historyVars, budget,
                      runtimeVars, modifierVars, tickVars, lockVars, unloaded>>

\* The process ends and starts again: new_collector_state with the configuration given
\* and what the two loads returned. The specifications restart under the configuration
\* the process was started with, so the rules the rebuild reads are the rules in force.
new_process(config, loaded_stats, analytics) ==
    LET s == new_collector_state(config, loaded_stats, analytics, clock)
    IN /\ stats' = s.stats
       /\ last_typing_instant' = s.last_typing_instant
       /\ session_gap' = s.session_gap
       /\ paused' = s.paused
       /\ auto_paused' = s.auto_paused
       /\ auto_pause_reason' = s.auto_pause_reason
       /\ ignore_key_combos' = s.ignore_key_combos
       /\ excluded_bundle_ids' = s.excluded_bundle_ids
       /\ pressed_non_modifier_keys' = s.pressed_non_modifier_keys
       /\ active_stats_key' = s.active_stats_key
       /\ app_dict' = s.app_dict
       /\ app_ref_by_app' = s.app_ref_by_app
       /\ next_app_ref' = s.next_app_ref
       /\ event_chunks' = s.event_chunks
       /\ open_event_chunk' = s.open_event_chunk
       /\ shortcut_require_cmd_or_ctrl' = s.shortcut_require_cmd_or_ctrl
       /\ shortcut_allow_alt_only' = s.shortcut_allow_alt_only
       /\ shortcut_min_modifiers' = s.shortcut_min_modifiers
       /\ shortcut_allowlist' = s.shortcut_allowlist
       /\ shortcut_blocklist' = s.shortcut_blocklist
       /\ shortcut_usage' = ConstructedUsage(config, analytics)
       /\ run' = [k \in KeyboardKeys |-> FreshRun]
       /\ afterSuspendedTick' = FALSE
       /\ afterDroppedCombo' = "no"
       /\ admitted' = {}
       /\ loadedIds' = DOMAIN shortcut_usage'
       /\ lock_poisoned' = FALSE
       /\ listener_running' = TRUE
       /\ keyboard_active' = s.keyboard_active
       /\ last_error' = s.last_error
       /\ menu_bar_display_mode' = s.menu_bar_display_mode
       /\ modifier_state' = s.modifier_state
       /\ held_modifier_keys' = {}
       /\ last_tick_instant' = s.last_tick_instant
       /\ UNCHANGED <<held_micros, lockVars>>
       /\ NoCommand
       /\ UNCHANGED <<clock, budget, diskVars>>

\* The process is started again on the data directory as it is and both loads succeed.
Restart(config) ==
    /\ new_process(config, load_stats(stats_files, legacy_stats_file),
                   load_input_analytics(analytics_files, legacy_analytics_file))
    /\ unloaded' = AllLoaded

\* The process is started again and a load returns Err (the data directory cannot be
\* read): unwrap_or_default puts the empty value in its place.
Restart_load_fails(config, stats_fails, analytics_fails) ==
    /\ stats_fails \/ analytics_fails
    /\ new_process(config,
                   IF stats_fails THEN EmptyMap
                   ELSE load_stats(stats_files, legacy_stats_file),
                   IF analytics_fails THEN NoAnalytics
                   ELSE load_input_analytics(analytics_files, legacy_analytics_file))
    /\ unloaded' = [stats_files |-> IF stats_fails THEN stats_files ELSE EmptyMap,
                    analytics_files |-> IF analytics_fails THEN analytics_files
                                        ELSE EmptyMap]

\* A configuration as new_collector_state receives it: the defaults, one excluded
\* bundle id and the shortcut rules the unit tests build their state with.
TestConfig == [ignore_key_combos |-> FALSE, session_gap_secs |-> 1,
               menu_bar_display_mode |-> "icon_text",
               excluded_bundle_ids |-> {"com.1password.1password"},
               shortcut_require_cmd_or_ctrl |-> TRUE, shortcut_allow_alt_only |-> FALSE,
               shortcut_min_modifiers |-> 1, shortcut_allowlist |-> {},
               shortcut_blocklist |-> {}]

\* -------------------------------------------------------------- command layer
\* MenuBarDisplayMode::from_str
MenuBarDisplayMode_from_str(value) ==
    IF value \in {"icon_only", "text_only", "icon_text"} THEN Some(value) ELSE None

\* CollectorState::set_menu_bar_display_mode
SetMenuBarDisplayMode(mode) ==
    /\ menu_bar_display_mode' = mode
    /\ UNCHANGED <<typingVars, pauseVars, configVars, ruleVars, dictVars, chunkVars,
                   shortcut_usage, clock, historyVars, budget, diskVars, lock_poisoned,
                   listener_running, keyboard_active, last_error, modifierVars, tickVars,
                   lockVars, unloaded>>

\* CollectorState::snapshot_rows: the bucket table as rows ordered by date, app and
\* window title (the fourth sort key never decides, the first three are the map key).
snapshot_rows(map) == stats_to_rows(map)

\* b.count.cmp(&a.count).then_with(|| a.name.cmp(&b.name))
CountThenName(a_count, a_name, b_count, b_name) ==
    \/ a_count > b_count
    \/ a_count = b_count /\ StrIndex(a_name) < StrIndex(b_name)

RECURSIVE SortAppRows(_)
SortAppRows(rows) ==
    IF rows = {} THEN << >>
    ELSE LET first == CHOOSE r \in rows : \A o \in rows \ {r} :
                          CountThenName(r.count, r.app_name, o.count, o.app_name)
         IN <<first>> \o SortAppRows(rows \ {first})

RECURSIVE SortShortcutRows(_)
SortShortcutRows(rows) ==
    IF rows = {} THEN << >>
    ELSE LET first == CHOOSE r \in rows : \A o \in rows \ {r} :
                          CountThenName(r.count, r.shortcut_id, o.count, o.shortcut_id)
         IN <<first>> \o SortShortcutRows(rows \ {first})

\* apps.into_iter().take(8)
TopApps == 8
Take(seq, n) == SubSeq(seq, 1, Min(Len(seq), n))

\* The leaderboard rows of a usage map: shortcuts by count, then id; under each the
\* eight most used apps by count, then name.
ShortcutRows(usage) ==
    SortShortcutRows(
        {[shortcut_id |-> id, count |-> usage[id].count,
          apps |-> Take(SortAppRows({[app_name |-> a, count |-> usage[id].by_app[a]] :
                                        a \in DOMAIN usage[id].by_app}), TopApps)] :
            id \in DOMAIN usage})

\* snapshot_shortcut_rows
snapshot_shortcut_rows == ShortcutRows(shortcut_usage)

\* Days before today that the widest range reaches back.
SevenDaysBack == 6

\* shortcut_range_window_ms: <<start, end>> of the range in local time; the model's
\* millisecond 0 is a local midnight.
shortcut_range_window_ms(range, now_ms) ==
    LET today_start == (now_ms \div MsPerDay) * MsPerDay
        tomorrow_start == today_start + MsPerDay
    IN IF range = "today" THEN <<today_start, tomorrow_start>>
       ELSE IF range = "yesterday" THEN <<today_start - MsPerDay, today_start>>
       ELSE <<today_start - SevenDaysBack * MsPerDay, tomorrow_start>>

\* consume_chunk: the 'd' events of one chunk that fall into the window, replayed
\* through the normalizer and the filter.
RECURSIVE ConsumeChunk(_, _, _, _, _, _)
ConsumeChunk(usage, chunk_start_ms, app_id, events, start_ms, end_ms) ==
    IF events = << >> THEN usage
    ELSE LET parsed == parse_compact_event(Head(events))
             e == parsed[1]
             event_ms == chunk_start_ms + Max(e.dt, 0)
             modifiers == from_bitmask(e.modifier_mask)
             shortcut_id == normalize_shortcut_id(modifiers, e.key)
             next == IF parsed = None THEN usage
                     ELSE IF e.event_type # "d" THEN usage
                     ELSE IF event_ms < start_ms \/ event_ms >= end_ms THEN usage
                     ELSE IF ~should_count_shortcut(modifiers, shortcut_id) THEN usage
                     ELSE count_shortcut(usage, shortcut_id, app_id)
         IN ConsumeChunk(next, chunk_start_ms, app_id, Tail(events), start_ms, end_ms)

RECURSIVE ConsumeChunks(_, _, _, _)
ConsumeChunks(usage, chunks, start_ms, end_ms) ==
    IF chunks = << >> THEN usage
    ELSE LET chunk == Head(chunks)
             app_id == EntryOr(app_dict, chunk.app_ref, "app:" \o ToString(chunk.app_ref))
         IN ConsumeChunks(ConsumeChunk(usage, chunk.chunk_start_ms, app_id, chunk.events,
                                       start_ms, end_ms),
                          Tail(chunks), start_ms, end_ms)

\* snapshot_shortcut_rows_in_window: closed chunks first, then the open chunk.
snapshot_shortcut_rows_in_window(start_ms, end_ms) ==
    ShortcutRows(ConsumeChunks(EmptyMap,
                               event_chunks
                                 \o (IF open_event_chunk = None THEN << >>
                                     ELSE <<open_event_chunk[1]>>),
                               start_ms, end_ms))

\* snapshot_shortcut_rows_by_range at wall-clock reading now_ms
snapshot_shortcut_rows_by_range(range, now_ms) ==
    LET window == shortcut_range_window_ms(range, now_ms)
    IN snapshot_shortcut_rows_in_window(window[1], window[2])

\* excluded_bundle_ids.sort(): the set as an ascending list.
RECURSIVE SortStrings(_)
SortStrings(set) ==
    IF set = {} THEN << >>
    ELSE LET first == CHOOSE v \in set : \A o \in set \ {v} : StrIndex(v) < StrIndex(o)
         IN <<first>> \o SortStrings(set \ {first})

\* CollectorState::snapshot (the file paths and the 1Password suggestion flag are left
\* out: nothing modelled writes them).
snapshot ==
    [rows |-> snapshot_rows(stats),
     paused |-> paused,
     auto_paused |-> auto_paused,
     auto_pause_reason |-> auto_pause_reason,
     keyboard_active |-> keyboard_active,
     ignore_key_combos |-> ignore_key_combos,
     excluded_bundle_ids |-> SortStrings(excluded_bundle_ids),
     tray_display_mode |-> menu_bar_display_mode,
     last_error |-> last_error,
     shortcut_stats |-> snapshot_shortcut_rows]

\* The snapshot get_snapshot builds when the state lock cannot be taken.
LockFailedSnapshot ==
    [rows |-> << >>,
     paused |-> FALSE,
     auto_paused |-> FALSE,
     auto_pause_reason |-> NoneStr,
     keyboard_active |-> FALSE,
     ignore_key_combos |-> FALSE,
     excluded_bundle_ids |-> << >>,
     tray_display_mode |-> "icon_text",
     last_error |-> "state lock failed",
     shortcut_stats |-> << >>]

\* Everything a command can reach except what it returns.
commandReach == <<typingVars, pauseVars, configVars, ruleVars, dictVars, chunkVars,
                  shortcut_usage, clock, historyVars, budget, diskVars, runtimeVars,
                  modifierVars, tickVars, lockVars, unloaded, app_config>>

\* get_snapshot
get_snapshot ==
    /\ reply' = Some(IF lock_poisoned THEN LockFailedSnapshot ELSE snapshot)
    /\ UNCHANGED commandReach

\* Fault variant of update_paused: the guard of a poisoned lock is taken all the same.
update_paused_past_poison(value) ==
    /\ SetPaused(value)
    /\ UNCHANGED app_config
    /\ reply' = Some(snapshot')

\* get_shortcut_stats_by_range: the rows returned, an empty list when the lock fails.
get_shortcut_stats_by_range(range, now_ms) ==
    /\ reply' = Some([shortcut_stats |->
                         IF lock_poisoned THEN << >>
                         ELSE snapshot_shortcut_rows_by_range(range, now_ms)])
    /\ UNCHANGED commandReach

\* update_paused
update_paused(value) ==
    IF lock_poisoned THEN get_snapshot
    ELSE /\ SetPaused(value)
         /\ UNCHANGED app_config
         /\ reply' = Some(snapshot')

\* update_ignore_key_combos
update_ignore_key_combos(value) ==
    IF lock_poisoned THEN get_snapshot
    ELSE /\ SetIgnoreKeyCombos(value)
         /\ app_config' = [app_config EXCEPT !.ignore_key_combos = value]
         /\ reply' = Some(snapshot')

\* update_shortcut_rules
update_shortcut_rules(require_cmd_or_ctrl, allow_alt_only, min_modifiers, allowlist, blocklist) ==
    IF lock_poisoned THEN get_snapshot
    ELSE /\ SetShortcutRules(require_cmd_or_ctrl, allow_alt_only, min_modifiers, allowlist,
                             blocklist)
         /\ app_config' = [app_config EXCEPT
                              !.shortcut_require_cmd_or_ctrl = require_cmd_or_ctrl,
                              !.shortcut_allow_alt_only = allow_alt_only,
                              !.shortcut_min_modifiers = Max(min_modifiers, 1),
                              !.shortcut_allowlist = normalize_id_list(allowlist),
                              !.shortcut_blocklist = normalize_id_list(blocklist)]
         /\ reply' = Some(snapshot')

\* update_app_exclusion_list
update_app_exclusion_list(bundle_ids) ==
    IF lock_poisoned THEN get_snapshot
    ELSE /\ SetExcludedBundleIds(bundle_ids)
         /\ app_config' = [app_config EXCEPT
                              !.excluded_bundle_ids = normalize_id_list(bundle_ids)]
         /\ reply' = Some(snapshot')

\* str::eq_ignore_ascii_case
eq_ignore_ascii_case(a, b) == to_ascii_lowercase(a) = to_ascii_lowercase(b)

\* CollectorState::add_excluded_bundle_id: the set after the call (an id that is empty
\* once trimmed is refused).
add_excluded_bundle_id(bundle_id) ==
    LET normalized == to_ascii_lowercase(trim(bundle_id))
    IN IF normalized = "" THEN excluded_bundle_ids
       ELSE excluded_bundle_ids \cup {normalized}

\* CollectorState::remove_excluded_bundle_id: the set after the call.
remove_excluded_bundle_id(bundle_id) ==
    excluded_bundle_ids \ {to_ascii_lowercase(trim(bundle_id))}

\* add_app_exclusion: the config list is touched only when the in-memory set grew.
add_app_exclusion(bundle_id) ==
    IF lock_poisoned THEN get_snapshot
    ELSE LET normalized == to_ascii_lowercase(trim(bundle_id))
             added == add_excluded_bundle_id(bundle_id) # excluded_bundle_ids
             listed == app_config.excluded_bundle_ids
         IN /\ SetExcludedBundleIds(add_excluded_bundle_id(bundle_id))
            /\ app_config' =
                  IF added /\ ~\E v \in listed : eq_ignore_ascii_case(v, normalized)
                  THEN [app_config EXCEPT !.excluded_bundle_ids = listed \cup {normalized}]
                  ELSE app_config
            /\ reply' = Some(snapshot')

\* remove_app_exclusion: when the in-memory set shrank, the config list keeps the
\* entries that differ from bundle_id as it was passed, ignoring case.
remove_app_exclusion(bundle_id) ==
    IF lock_poisoned THEN get_snapshot
    ELSE LET removed == remove_excluded_bundle_id(bundle_id) # excluded_bundle_ids
             listed == app_config.excluded_bundle_ids
         IN /\ SetExcludedBundleIds(remove_excluded_bundle_id(bundle_id))
            /\ app_config' =
                  IF removed
                  THEN [app_config EXCEPT !.excluded_bundle_ids =
                           {v \in listed : ~eq_ignore_ascii_case(v, bundle_id)}]
                  ELSE app_config
            /\ reply' = Some(snapshot')

\* update_menu_bar_display_mode
update_menu_bar_display_mode(mode) ==
    LET parsed == MenuBarDisplayMode_from_str(mode)
    IN IF parsed = None \/ lock_poisoned THEN get_snapshot
       ELSE /\ SetMenuBarDisplayMode(parsed[1])
            /\ app_config' = [app_config EXCEPT !.menu_bar_display_mode = parsed[1]]
            /\ reply' = Some(snapshot')

\* reset_stats
reset_stats ==
    IF lock_poisoned THEN get_snapshot
    ELSE /\ ClearStats
         /\ UNCHANGED app_config
         /\ reply' = Some(snapshot')

\* ------------------------------------------------------------ collector threads
\* on_non_modifier_key_down: the event is applied when the lock is taken.
on_non_modifier_key_down(physical_key_id, modifiers, is_key_combo, ctx, at, now_ms, minute) ==
    /\ listener_running
    /\ ~lock_poisoned
    /\ KeyDown(physical_key_id, modifiers, is_key_combo, ctx, at, now_ms, minute)

\* on_non_modifier_key_up
on_non_modifier_key_up(physical_key_id, modifiers, ctx, now_ms) ==
    /\ listener_running
    /\ ~lock_poisoned
    /\ KeyUp(physical_key_id, modifiers, ctx, now_ms)

\* on_key_event_non_macos: the rdev listener's callback for one key press or release.
\* A modifier key only updates modifier_state; any other key is handed on with the
\* snapshot taken before the update, under the id "rdev:<key>" (the shortcut key of
\* KeyX is "x").
on_key_event_non_macos(key, pressed, ctx, at, now_ms, minute) ==
    LET modifiers_before == ModifierState_snapshot(modifier_state)
    IN /\ ~lock_poisoned
       /\ IF is_modifier_key(key)
          THEN /\ listener_running
               /\ modifier_state' = ModifierState_update(modifier_state, key, pressed)
               /\ held_modifier_keys' = IF pressed THEN held_modifier_keys \cup {key}
                                        ELSE held_modifier_keys \ {key}
               /\ NoCommand
               /\ UNCHANGED <<typingVars, pauseVars, configVars, ruleVars, dictVars,
                              chunkVars, shortcut_usage, clock, historyVars, budget,
                              diskVars, runtimeVars, tickVars, lockVars, unloaded>>
          ELSE IF pressed
          THEN on_non_modifier_key_down("rdev:" \o key, modifiers_before,
                                        has_any(modifiers_before), ctx, at, now_ms, minute)
          ELSE on_non_modifier_key_up("rdev:" \o key, modifiers_before, ctx, now_ms)

\* start_collector, listener thread: the platform listener returns Err(err).
ListenerError(err) ==
    /\ listener_running
    /\ listener_running' = FALSE
    /\ keyboard_active' = IF lock_poisoned THEN keyboard_active ELSE FALSE
    /\ last_error' = IF lock_poisoned THEN last_error ELSE err
    /\ NoCommand
    /\ UNCHANGED <<typingVars, pauseVars, configVars, ruleVars, dictVars, chunkVars,
                   shortcut_usage, clock, historyVars, budget, diskVars, lock_poisoned,
                   menu_bar_display_mode, modifierVars, tickVars, lockVars, unloaded>>

\* Fault variant of TickThreadPass: the tick thread stops with the listener.
TickThreadPass_while_listening(elapsed, ctx, at, now_ms, due) ==
    /\ keyboard_active
    /\ ~lock_poisoned
    /\ TickLoop(elapsed, ctx, at, now_ms, due)

\* start_collector, tick thread: one pass of the loop body when the lock is taken.
TickThreadPass(elapsed, ctx, at, now_ms, due) ==
    /\ ~lock_poisoned
    /\ TickLoop(elapsed, ctx, at, now_ms, due)

\* A thread panics while it holds the state lock: the Mutex is poisoned from then on.
PanicUnderLock ==
    /\ ~lock_poisoned
    /\ lock_poisoned' = TRUE
    /\ NoCommand
    /\ UNCHANGED <<typingVars, pauseVars, configVars, ruleVars, dictVars, chunkVars,
                   shortcut_usage, clock, historyVars, budget, diskVars, listener_running,
                   keyboard_active, last_error, menu_bar_display_mode, modifierVars, tickVars,
                   lockVars, unloaded>>

\* ------------------------------------------------ the typing state machine
\* Key repeat, release, ticks in plain, secure-input and excluded-app contexts, and the
\* user pause.
ClockSteps == {0, MicrosPerSec + 1}
Elapsed == {999, 500000}
TypingContexts == {CtxEditor, CtxEditorSecure, CtxVault}
ThisMinute == "2026-02-10 00:00"

Init ==
    \E secs \in 0..MaxGapSecs :
        NewCollectorState([TestConfig EXCEPT !.session_gap_secs = secs], NoAnalytics)

KeyDownEvent ==
    \E k \in PhysicalKeys, ctx \in TypingContexts, d \in ClockSteps :
        KeyDown(k, NoMods, FALSE, ctx, clock + d, 0, ThisMinute)

KeyUpEvent ==
    \E k \in PhysicalKeys : KeyUp(k, NoMods, CtxEditor, 0)

TickEvent ==
    \E e \in Elapsed, ctx \in TypingContexts, d \in ClockSteps : Tick(e, ctx, clock + d)

PauseCommand == NoCommand /\ \E value \in BOOLEAN : SetPaused(value)

Next == KeyDownEvent \/ KeyUpEvent \/ TickEvent \/ PauseCommand

Spec == Init /\ [][Next]_vars

\* --------------------------------------------- the ignore-combos state machine
\* Plain keys and cmd-combos in one application while the ignore_key_combos setting is
\* switched; the macOS bridge reports is_key_combo = modifiers.has_any().
CmdOnly == Mods(FALSE, FALSE, FALSE, TRUE, FALSE)
ComboModifiers == {NoMods, CmdOnly}

InitCombos == NewCollectorState(TestConfig, NoAnalytics)

ComboKeyDownEvent ==
    \E k \in PhysicalKeys, m \in ComboModifiers :
        KeyDown(k, m, has_any(m), CtxEditor, clock, 0, ThisMinute)

ComboTickEvent == \E e \in Elapsed : Tick(e, CtxEditor, clock)

IgnoreCombosCommand == NoCommand /\ \E value \in BOOLEAN : SetIgnoreKeyCombos(value)

NextCombos == ComboKeyDownEvent \/ KeyUpEvent \/ ComboTickEvent \/ IgnoreCombosCommand

SpecCombos == InitCombos /\ [][NextCombos]_vars

\* ------------------------------------------------- the shortcut state machine
\* Keys with modifiers in two applications and an excluded one, under changing admission
\* rules, starting from each kind of stored analytics: none, a legacy payload carrying
\* shortcut_usage, and event chunks only (shortcut_usage is rebuilt from them).
OptOnly == Mods(FALSE, TRUE, FALSE, FALSE, FALSE)
ShiftCmd == Mods(FALSE, FALSE, TRUE, TRUE, FALSE)
ShortcutModifiers == {NoMods, CmdOnly, ShiftCmd}
ShortcutContexts == {CtxEditor, CtxUnknown, CtxVault}
RawIdLists == {{}, {" CMD_Z "}, {"opt_x", "  "}}

LegacyAnalytics ==
    [NoAnalytics EXCEPT
        !.shortcut_usage = ("cmd_c" :> [count |-> 1, by_app |-> ("com.test.editor" :> 1)])]

ChunkAnalytics ==
    [NoAnalytics EXCEPT
        !.app_dict = (1 :> "com.test.editor"),
        !.next_app_ref = 2,
        !.event_chunks = << [v |-> 1, chunk_start_ms |-> 0, app_ref |-> 1,
                             events |-> << format_compact_event(0, "d", "x", CmdOnly) >>] >>]

StoredAnalytics == {NoAnalytics, LegacyAnalytics, ChunkAnalytics}

InitShortcut == \E analytics \in StoredAnalytics : NewCollectorState(TestConfig, analytics)

ShortcutKeyDownEvent ==
    \E k \in PhysicalKeys, m \in ShortcutModifiers, ctx \in ShortcutContexts :
        KeyDown(k, m, has_any(m), ctx, clock, 0, ThisMinute)

ListsCommand ==
    /\ NoCommand
    /\ \E allowlist \in {{}, {" CMD_Z "}}, blocklist \in {{}, {" CMD_Z "}} :
        SetShortcutRules(shortcut_require_cmd_or_ctrl, shortcut_allow_alt_only,
                         shortcut_min_modifiers, allowlist, blocklist)

NextShortcut == ShortcutKeyDownEvent \/ KeyUpEvent \/ ListsCommand

SpecShortcut == InitShortcut /\ [][NextShortcut]_vars

\* ---------------------------------------------------- the rules state machine
\* Every setting of the admission rules the settings command can install, around one
\* cmd+z shortcut.
InitRules == NewCollectorState(TestConfig, NoAnalytics)

RulesKeyDownEvent == KeyDown("mac:6", CmdOnly, TRUE, CtxEditor, clock, 0, ThisMinute)

RulesKeyUpEvent == KeyUp("mac:6", NoMods, CtxEditor, 0)

RulesCommand ==
    /\ NoCommand
    /\ \E require_cmd_or_ctrl \in BOOLEAN, allow_alt_only \in BOOLEAN,
       min_modifiers \in 0..MaxMinModifiers, allowlist \in RawIdLists,
       blocklist \in RawIdLists :
        SetShortcutRules(require_cmd_or_ctrl, allow_alt_only, min_modifiers, allowlist,
                         blocklist)

NextRules == RulesKeyDownEvent \/ RulesKeyUpEvent \/ RulesCommand

SpecRules == InitRules /\ [][NextRules]_vars

\* ------------------------------------------------- the chunk ring state machine
\* A process started over a legacy analytics file whose ring is one short of the cap or
\* at the cap, then key releases in three apps and tick-loop passes at wall-clock readings
\* past the stored chunks.
RingFill == {INPUT_CHUNK_MAX_STORED - 1, INPUT_CHUNK_MAX_STORED}
RingReadings == {20000, 26000}
RingContexts == {CtxEditor, CtxUnknown, CtxVault}

StoredRing(n) ==
    [shortcut_usage |-> ("cmd_c" :> [count |-> 1, by_app |-> ("com.test.editor" :> 1)]),
     app_dict |-> (1 :> "com.test.editor"),
     next_app_ref |-> 2,
     event_chunks |-> [i \in 1..n |->
                          [v |-> 1, chunk_start_ms |-> i, app_ref |-> 1,
                           events |-> <<format_compact_event(0, "u", "x", NoMods)>>]]]

InitRing == \E n \in RingFill : NewCollectorState(TestConfig, StoredRing(n))

RingKeyUpEvent ==
    \E ctx \in RingContexts, now_ms \in RingReadings : KeyUp("mac:6", NoMods, ctx, now_ms)

RingTickLoop ==
    \E now_ms \in RingReadings : TickLoop(999, CtxEditor, clock, now_ms, FALSE)

NextRing == RingKeyUpEvent \/ RingTickLoop

SpecRing == InitRing /\ [][NextRing]_vars

\* ------------------------------------------------- the key burst state machine
\* One key released over and over in one app within one wall-clock millisecond until the
\* open chunk is one event short of INPUT_CHUNK_MAX_EVENTS; then MaxLog more releases in
\* either app at readings inside, at the edge of and past the chunk window, and tick-loop
\* passes in between.
BurstBudget == INPUT_CHUNK_MAX_EVENTS - 1 + MaxLog
BurstReadings == {0, INPUT_CHUNK_WINDOW_MS - 1, INPUT_CHUNK_WINDOW_MS}
BurstContexts == {CtxEditor, CtxUnknown}

InitBurst ==
    /\ DataDirWith(NoAnalytics)
    /\ budget = BurstBudget
    /\ held_micros = None
    /\ Started(TestConfig)

BurstKeyUpEvent ==
    /\ budget > MaxLog
    /\ KeyUp("mac:6", NoMods, CtxEditor, 0)

BurstEndKeyUpEvent ==
    /\ budget <= MaxLog
    /\ \E ctx \in BurstContexts, now_ms \in BurstReadings : KeyUp("mac:6", NoMods, ctx, now_ms)

BurstTickLoop ==
    /\ budget <= MaxLog
    /\ \E now_ms \in BurstReadings : TickLoop(999, CtxEditor, clock, now_ms, FALSE)

NextBurst == BurstKeyUpEvent \/ BurstEndKeyUpEvent \/ BurstTickLoop

SpecBurst == InitBurst /\ [][NextBurst]_vars

\* ---------------------------------------------------- the encoder state machine
\* Key events of one key in two apps and tick-loop passes, each reading the wall clock;
\* the readings come in any order, as a clock that is set back between two of them gives.
WallReadings == {0, 400, 5400}
EncoderContexts == {CtxEditor, CtxUnknown}

InitEncoder == NewCollectorState(TestConfig, NoAnalytics)

EncoderKeyDownEvent ==
    \E ctx \in EncoderContexts, now_ms \in WallReadings :
        KeyDown("mac:6", NoMods, FALSE, ctx, clock, now_ms, ThisMinute)

EncoderKeyUpEvent ==
    \E ctx \in EncoderContexts, now_ms \in WallReadings :
        KeyUp("mac:6", NoMods, ctx, now_ms)

EncoderTickLoop ==
    \E now_ms \in WallReadings : TickLoop(999, CtxEditor, clock, now_ms, FALSE)

NextEncoder == EncoderKeyDownEvent \/ EncoderKeyUpEvent \/ EncoderTickLoop

SpecEncoder == InitEncoder /\ [][NextEncoder]_vars

\* ------------------------------------------- the app dictionary state machine
\* A process started over analytics whose next_app_ref is one below the u32 maximum
\* (its stand-in MaxAppRef) or at it, then key releases in the stored app and in two
\* apps the dictionary does not know yet.
DictContexts == {CtxEditor, CtxUnknown, CtxVault}
DictReadings == {0, INPUT_CHUNK_WINDOW_MS}

StoredDict(n) ==
    [shortcut_usage |-> EmptyMap,
     app_dict |-> ((n - 1) :> "com.test.editor"),
     next_app_ref |-> n,
     event_chunks |-> <<[v |-> 1, chunk_start_ms |-> 0, app_ref |-> n - 1,
                         events |-> <<format_compact_event(0, "u", "x", NoMods)>>]>>]

InitDict == \E n \in {MaxAppRef - 1, MaxAppRef} : NewCollectorState(TestConfig, StoredDict(n))

DictKeyUpEvent ==
    \E k \in PhysicalKeys, ctx \in DictContexts, now_ms \in DictReadings :
        KeyUp(k, NoMods, ctx, now_ms)

DictTickLoop ==
    \E now_ms \in DictReadings : TickLoop(999, CtxEditor, clock, now_ms, FALSE)

NextDict == DictKeyUpEvent \/ DictTickLoop

SpecDict == InitDict /\ [][NextDict]_vars

\* ------------------------------------------------------ the storage state machine
\* A process started over an empty data directory or over a legacy monolithic detail
\* file; key events in two apps on either side of midnight, tick-loop passes with and
\* without the periodic save, clear_stats, and restarts.
StorageContexts == {CtxEditor, CtxUnknown}
StorageMoments == {[now_ms |-> MsPerDay - 1, minute |-> "2026-02-09 23:59"],
                   [now_ms |-> MsPerDay, minute |-> "2026-02-10 00:00"]}
LegacyRows == <<[date |-> "2026-02-09 23:59", app_name |-> "com.test.editor",
                 window_title |-> "Doc", active_typing_ms |-> 0, key_count |-> 1,
                 session_count |-> 1]>>

InitStorage ==
    /\ stats_files = EmptyMap
    /\ legacy_stats_file \in {None, Some(LegacyRows)}
    /\ analytics_files = EmptyMap
    /\ legacy_analytics_file = None
    /\ budget = MaxLog
    /\ held_micros = None
    /\ Started(TestConfig)

StorageKeyDownEvent ==
    \E ctx \in StorageContexts, mo \in StorageMoments :
        KeyDown("mac:6", NoMods, FALSE, ctx, clock, mo.now_ms, mo.minute)

StorageKeyUpEvent ==
    \E mo \in StorageMoments : KeyUp("mac:6", NoMods, CtxEditor, mo.now_ms)

StorageTickLoop ==
    \E mo \in StorageMoments, due \in BOOLEAN : TickLoop(500000, CtxEditor, clock, mo.now_ms, due)

StorageClearStats == NoCommand /\ ClearStats

StorageRestart == Restart(TestConfig)

NextStorage ==
    \/ StorageKeyDownEvent
    \/ StorageKeyUpEvent
    \/ StorageTickLoop
    \/ StorageClearStats
    \/ StorageRestart

SpecStorage == InitStorage /\ [][NextStorage]_vars

\* ------------------------------------------------------ the restart state machine
\* Shortcuts typed with cmd held on the z key and on the comma key in two apps, tick-loop
\* passes with and without the periodic save, and restarts under the same configuration.
RestartKeys == {"mac:6", "mac:43"}
RestartContexts == {CtxEditor, CtxUnknown}

InitRestart == NewCollectorState(TestConfig, NoAnalytics)

RestartKeyDownEvent ==
    \E k \in RestartKeys, ctx \in RestartContexts :
        KeyDown(k, CmdOnly, TRUE, ctx, clock, 0, ThisMinute)

RestartKeyUpEvent ==
    \E k \in RestartKeys : KeyUp(k, NoMods, CtxEditor, 0)

RestartTickLoop ==
    \E due \in BOOLEAN : TickLoop(999, CtxEditor, clock, 0, due)

RestartProcess == Restart(TestConfig)

NextRestart ==
    \/ RestartKeyDownEvent
    \/ RestartKeyUpEvent
    \/ RestartTickLoop
    \/ RestartProcess

SpecRestart == InitRestart /\ [][NextRestart]_vars

\* ---------------------------------------------------- the control surface machine
\* The running process as the frontend and the two collector threads drive it: cmd+z
\* typed in one app, tick-thread passes that each flush and save (flush_interval equal
\* to the tick interval), every settings command (the exclusion list with and without
\* that app) and reset_stats.
SurfaceContexts == {CtxEditor, CtxVault}
SurfaceBlocklists == {{}, {" CMD_Z "}}
SurfaceExclusionLists == {{"com.1password.1password"}, {" Com.Test.Editor "}}
SurfaceModes == {"text_only", "icon_text", "large"}

\* Compact events the surface machine appends before key events stop.
SurfaceEvents == 1

InitSurface ==
    /\ DataDirWith(NoAnalytics)
    /\ budget = SurfaceEvents
    /\ held_micros = None
    /\ Started(TestConfig)

SurfaceKeyDown ==
    on_non_modifier_key_down("mac:6", CmdOnly, TRUE, CtxEditor, clock, 0, ThisMinute)

SurfaceKeyUp == on_non_modifier_key_up("mac:6", NoMods, CtxEditor, 0)

SurfaceTick == TickThreadPass(500000, CtxEditor, clock, 0, TRUE)

SurfacePause == \E value \in BOOLEAN : update_paused(value)

SurfaceIgnoreCombos == \E value \in BOOLEAN : update_ignore_key_combos(value)

SurfaceRules ==
    \E blocklist \in SurfaceBlocklists : update_shortcut_rules(TRUE, FALSE, 0, {}, blocklist)

SurfaceExclusions == \E bundle_ids \in SurfaceExclusionLists : update_app_exclusion_list(bundle_ids)

SurfaceDisplayMode == \E mode \in SurfaceModes : update_menu_bar_display_mode(mode)

SurfaceReset == reset_stats

NextSurface ==
    \/ SurfaceKeyDown
    \/ SurfaceKeyUp
    \/ SurfaceTick
    \/ SurfacePause
    \/ SurfaceIgnoreCombos
    \/ SurfaceRules
    \/ SurfaceExclusions
    \/ SurfaceDisplayMode
    \/ SurfaceReset

SpecSurface == InitSurface /\ [][NextSurface]_vars

\* ---------------------------------------------------- the poisoned lock machine
\* The process around a panic under the state lock: cmd+z typed in one app, tick-thread
\* passes, the listener failing, and the frontend calling every command of the control
\* surface before and after the panic.
InitPoisoned ==
    /\ DataDirWith(NoAnalytics)
    /\ budget = SurfaceEvents
    /\ held_micros = None
    /\ Started(TestConfig)

PoisonedKeyDown ==
    on_non_modifier_key_down("mac:6", CmdOnly, TRUE, CtxEditor, clock, 0, ThisMinute)

PoisonedKeyUp == on_non_modifier_key_up("mac:6", NoMods, CtxEditor, 0)

PoisonedTick == TickThreadPass(500000, CtxEditor, clock, 0, FALSE)

PoisonedListenerError == ListenerError("EventTapError")

PoisonedPanic == PanicUnderLock

PoisonedGetSnapshot == get_snapshot

PoisonedPause == \E value \in BOOLEAN : update_paused(value)

PoisonedIgnoreCombos == update_ignore_key_combos(TRUE)

PoisonedRules == update_shortcut_rules(TRUE, FALSE, 0, {}, {" CMD_Z "})

PoisonedExclusions == update_app_exclusion_list({" Com.Test.Editor "})

PoisonedDisplayMode == \E mode \in {"text_only", "large"} : update_menu_bar_display_mode(mode)

PoisonedReset == reset_stats

PoisonedCommand ==
    \/ PoisonedPause
    \/ PoisonedIgnoreCombos
    \/ PoisonedRules
    \/ PoisonedExclusions
    \/ PoisonedDisplayMode
    \/ PoisonedReset

NextPoisoned ==
    \/ PoisonedKeyDown
    \/ PoisonedKeyUp
    \/ PoisonedTick
    \/ PoisonedListenerError
    \/ PoisonedPanic
    \/ PoisonedGetSnapshot
    \/ PoisonedCommand

SpecPoisoned == InitPoisoned /\ [][NextPoisoned]_vars

\* ------------------------------------------------------- the listener machine
\* The two collector threads of one process: the listener delivering key events in a
\* plain and an excluded app until the platform listener returns an error, the tick
\* thread passing with and without the periodic save, and the pause command.
ListenerErrors == {"EventTapError", "KeyboardError"}

InitListener == NewCollectorState(TestConfig, NoAnalytics)

ListenerKeyDown ==
    \E ctx \in SurfaceContexts :
        on_non_modifier_key_down("mac:6", NoMods, FALSE, ctx, clock, 0, ThisMinute)

ListenerKeyUp == on_non_modifier_key_up("mac:6", NoMods, CtxEditor, 0)

ListenerTick ==
    \E e \in Elapsed, ctx \in SurfaceContexts, due \in BOOLEAN :
        TickThreadPass(e, ctx, clock, 0, due)

ListenerFails == \E err \in ListenerErrors : ListenerError(err)

ListenerPause == \E value \in BOOLEAN : update_paused(value)

NextListener ==
    \/ ListenerKeyDown
    \/ ListenerKeyUp
    \/ ListenerTick
    \/ ListenerFails
    \/ ListenerPause

SpecListener == InitListener /\ [][NextListener]_vars

\* ------------------------------------------------------- the range query machine
\* cmd+z, cmd+comma and plain z typed in one app at wall-clock readings on either side
\* of every window edge (the last millisecond of a day and the first of the next),
\* tick-thread passes that close expired chunks, the blocklist being switched, and the
\* frontend asking for each range early on the eighth day.
RangeStrokes == {[key |-> "mac:6", modifiers |-> CmdOnly],
                 [key |-> "mac:43", modifiers |-> CmdOnly],
                 [key |-> "mac:6", modifiers |-> NoMods]}
RangeEdges == {1, 6, 7, 8}
RangeReadings == {d * MsPerDay - 1 : d \in RangeEdges} \cup {d * MsPerDay : d \in RangeEdges}
RangeNow == 7 * MsPerDay + 400
RangeSelectors == {"today", "yesterday", "7d"}

InitRange == NewCollectorState(TestConfig, NoAnalytics)

RangeKeyDown ==
    \E stroke \in RangeStrokes, now_ms \in RangeReadings :
        on_non_modifier_key_down(stroke.key, stroke.modifiers, has_any(stroke.modifiers),
                                 CtxEditor, clock, now_ms, ThisMinute)

RangeKeyUp == on_non_modifier_key_up("mac:6", CmdOnly, CtxEditor, RangeNow)

RangeTick == TickThreadPass(999, CtxEditor, clock, RangeNow, FALSE)

RangeBlocklist ==
    /\ NoCommand
    /\ \E blocklist \in SurfaceBlocklists :
          SetShortcutRules(shortcut_require_cmd_or_ctrl, shortcut_allow_alt_only,
                           shortcut_min_modifiers, {}, blocklist)

RangeQuery == \E range \in RangeSelectors : get_shortcut_stats_by_range(range, RangeNow)

NextRange ==
    \/ RangeKeyDown
    \/ RangeKeyUp
    \/ RangeTick
    \/ RangeBlocklist
    \/ RangeQuery

SpecRange == InitRange /\ [][NextRange]_vars

\* --------------------------------------------------------- the modifier machine
\* One key pressed or released in either app under each of the 32 modifier snapshots,
\* so that every bitmask is written into the compact log.
ModifierEvents == 1
ModifierContexts == {CtxEditor, CtxUnknown}

InitModifiers ==
    /\ DataDirWith(NoAnalytics)
    /\ budget = ModifierEvents
    /\ held_micros = None
    /\ Started(TestConfig)

ModifiersKeyDown ==
    \E m \in ModifierSnapshot, ctx \in ModifierContexts :
        on_non_modifier_key_down("mac:6", m, has_any(m), ctx, clock, 0, ThisMinute)

ModifiersKeyUp ==
    \E m \in ModifierSnapshot, ctx \in ModifierContexts :
        on_non_modifier_key_up("mac:6", m, ctx, 0)

NextModifiers == ModifiersKeyDown \/ ModifiersKeyUp

SpecModifiers == InitModifiers /\ [][NextModifiers]_vars

\* ---------------------------------------------------------- the session machine
\* Keys in two apps and ticks arriving just before, exactly at and just after the
\* session gap, measured from the last instant that recorded typing.
SessionSteps == {0, MicrosPerSec - 1, MicrosPerSec, MicrosPerSec + 1}
SessionContexts == {CtxEditor, CtxUnknown}

InitSession == NewCollectorState(TestConfig, NoAnalytics)

SessionKeyDown ==
    \E k \in PhysicalKeys, ctx \in SessionContexts, d \in SessionSteps :
        KeyDown(k, NoMods, FALSE, ctx, clock + d, 0, ThisMinute)

SessionKeyUp ==
    \E k \in PhysicalKeys : KeyUp(k, NoMods, CtxEditor, 0)

SessionTick ==
    \E d \in SessionSteps : Tick(500000, CtxEditor, clock + d)

NextSession == SessionKeyDown \/ SessionKeyUp \/ SessionTick

SpecSession == InitSession /\ [][NextSession]_vars

\* ------------------------------------------------------------ the frame machine
\* One key, plain and as a cmd-combo, in an app with and without secure input, while
\* time passes from tick to tick, and the frontend calls every command of the
\* control surface (the rules, the exclusion list and the display mode with one value
\* each): each way a KeyDown is dropped and each way a Tick credits nothing.
FrameEvents == 1
FrameSteps == {0, 500000}
FrameModifiers == {NoMods, CmdOnly}
FrameContexts == {CtxEditor, CtxEditorSecure}

InitFrame ==
    /\ DataDirWith(NoAnalytics)
    /\ budget = FrameEvents
    /\ held_micros = None
    /\ Started(TestConfig)

FrameKeyDown ==
    \E m \in FrameModifiers, ctx \in FrameContexts :
        on_non_modifier_key_down("mac:6", m, has_any(m), ctx, clock, 0, ThisMinute)

FrameKeyUp == on_non_modifier_key_up("mac:6", NoMods, CtxEditor, 0)

FrameTick ==
    \E ctx \in FrameContexts, d \in FrameSteps :
        TickThreadPass(500000, ctx, clock + d, 0, FALSE)

FramePause == \E value \in BOOLEAN : update_paused(value)

FrameIgnoreCombos == \E value \in BOOLEAN : update_ignore_key_combos(value)

FrameRules == update_shortcut_rules(TRUE, FALSE, 1, {}, {})

FrameExclusions == update_app_exclusion_list({"com.1password.1password"})

FrameDisplayMode == update_menu_bar_display_mode("icon_text")

FrameReset == reset_stats

FrameCommand ==
    \/ FramePause
    \/ FrameIgnoreCombos
    \/ FrameRules
    \/ FrameExclusions
    \/ FrameDisplayMode
    \/ FrameReset

NextFrame == FrameKeyDown \/ FrameKeyUp \/ FrameTick \/ FrameCommand

SpecFrame == InitFrame /\ [][NextFrame]_vars

\* ------------------------------------------------------------ the flush machine
\* Two keys pressed around midnight in one app and held, tick-thread passes that credit
\* half a second with no save due, passes a millisecond after the last one with a save
\* that succeeds or fails part way, and reset_stats. The tick thread runs for ever and
\* its I/O succeeds again and again.
FlushMinutes == {"2026-02-09 23:59", "2026-02-10 00:00"}

InitFlush == NewCollectorState(TestConfig, NoAnalytics)

FlushKeyDown ==
    \E k \in PhysicalKeys, minute \in FlushMinutes :
        on_non_modifier_key_down(k, NoMods, FALSE, CtxEditor, clock, 0, minute)

FlushTick == TickThreadPass(500000, CtxEditor, clock, 0, FALSE)

FlushSaves == TickThreadPass(999, CtxEditor, clock, 0, TRUE)

FlushSaveFails ==
    \E stats_fails \in BOOLEAN, done \in SUBSET {"2026-02-09", "2026-02-10"},
       failure \in {None} \cup {Some(<<removed, written>>) :
                                   removed \in SUBSET {"2026-02-09"},
                                   written \in SUBSET {"2026-02-09"}} :
        /\ stats_fails \/ done = {}
        /\ TickLoopSaveFails(999, CtxEditor, clock, 0, stats_fails, done, failure)

FlushReset == reset_stats

NextFlush ==
    \/ FlushKeyDown
    \/ FlushTick
    \/ FlushSaves
    \/ FlushSaveFails
    \/ FlushReset

SpecFlush == InitFlush /\ [][NextFlush]_vars /\ WF_vars(FlushSaves)

\* ------------------------------------------------------- the non-macOS listener
\* The rdev build: both control keys, a shift key and the x key pressed and released
\* in any order (a key is released only while the stream seen so far holds it down),
\* ticks in an app with and without secure input, and the user pause.
NonMacModifierKeys == {"ControlLeft", "ControlRight", "ShiftLeft"}
NonMacContexts == {CtxEditor, CtxEditorSecure}

InitNonMac == NewCollectorState(TestConfig, NoAnalytics)

NonMacModifierPress ==
    \E key \in NonMacModifierKeys :
        on_key_event_non_macos(key, TRUE, CtxEditor, clock, 0, ThisMinute)

NonMacModifierRelease ==
    \E key \in held_modifier_keys :
        on_key_event_non_macos(key, FALSE, CtxEditor, clock, 0, ThisMinute)

NonMacKeyDown ==
    \E ctx \in NonMacContexts : on_key_event_non_macos("KeyX", TRUE, ctx, clock, 0, ThisMinute)

NonMacKeyUp == on_key_event_non_macos("KeyX", FALSE, CtxEditor, clock, 0, ThisMinute)

NonMacTick == \E ctx \in NonMacContexts : TickThreadPass(500000, ctx, clock, 0, FALSE)

NonMacPause == NoCommand /\ \E value \in BOOLEAN : SetPaused(value)

NextNonMac ==
    \/ NonMacModifierPress
    \/ NonMacModifierRelease
    \/ NonMacKeyDown
    \/ NonMacKeyUp
    \/ NonMacTick
    \/ NonMacPause

SpecNonMac == InitNonMac /\ [][NextNonMac]_vars

\* ------------------------------------------------------------------ properties
\* A step of the Tick arm, for every input the state machines draw.
IsTick == \E e \in Elapsed, ctx \in Contexts, d \in ClockSteps : Tick(e, ctx, clock + d)

ActiveMs(table, key) == EntryOr(table, key, ZeroStats).active_typing_ms

\* Runs of KeyDowns on one key since its last KeyUp that stayed within
\* "not user-paused, ignore_key_combos off, every KeyDown in a non-auto-paused context".
CleanRuns == {k \in PhysicalKeys : run[k].downs > 0 /\ ~run[k].tainted}

\* C1 as stated: over every run of KeyDowns on one physical key with no KeyUp between
\* them (not user-paused, ignore_key_combos off, KeyDown contexts not auto-paused), the
\* total key_count has grown by exactly 1, whatever Ticks were interleaved.
C1_OncePerRunWhateverTicks == \A k \in CleanRuns : run[k].counted = 1

\* C1 amended: the same, provided no interleaved Tick was applied in an auto-paused
\* context (secure input or excluded app); such a Tick empties the pressed set and the
\* next KeyDown of the held key is counted again.
C1_OncePerRunWithoutSuspendedTick ==
    \A k \in CleanRuns : ~run[k].suspendedTick => run[k].counted = 1

C1_RepeatedKeyDownCountedOnce ==
    \E k \in CleanRuns :
        /\ run[k].downs = 2 /\ ~run[k].suspendedTick /\ run[k].counted = 1
        /\ TotalActiveMs(stats) > 0

\* C2: every step that increases some bucket's active_typing_ms is a Tick applied where
\* the pressed set is non-empty, paused is false and the Tick's context is not
\* auto-paused; a Tick applied while the pressed set is empty changes no
\* active_typing_ms.
C2_AccruesOnlyWhileHeldAndLive ==
    [][ /\ (\E key \in DOMAIN stats' : ActiveMs(stats', key) > ActiveMs(stats, key))
            => \E e \in Elapsed, ctx \in Contexts, d \in ClockSteps :
                  /\ Tick(e, ctx, clock + d)
                  /\ pressed_non_modifier_keys # {}
                  /\ ~paused
                  /\ ~is_auto_paused(ctx)
        /\ (IsTick /\ pressed_non_modifier_keys = {})
            => \A key \in DOMAIN stats' : ActiveMs(stats', key) = ActiveMs(stats, key)
      ]_vars

C2_CreditedThenReleased ==
    TotalActiveMs(stats) > 0 /\ pressed_non_modifier_keys = {} /\ ~afterSuspendedTick

\* C3: a Tick applied while the pressed set is non-empty and the collector is neither
\* paused nor auto-paused adds exactly its elapsed whole milliseconds to the sum of
\* active_typing_ms, all of it to the bucket named by active_stats_key (so a sequence
\* of such Ticks adds the sum of their elapsed milliseconds).
C3_ExactTickAccounting ==
    [][ \A e \in Elapsed, ctx \in Contexts, d \in ClockSteps :
          ( /\ Tick(e, ctx, clock + d)
            /\ pressed_non_modifier_keys # {}
            /\ ~paused
            /\ ~is_auto_paused(ctx) )
          => /\ active_stats_key # None
             /\ TotalActiveMs(stats') = TotalActiveMs(stats) + (e \div MicrosPerMilli)
             /\ ActiveMs(stats', active_stats_key[1])
                  = ActiveMs(stats, active_stats_key[1]) + (e \div MicrosPerMilli)
      ]_vars

C3_TwoTicksCredited ==
    /\ pressed_non_modifier_keys # {}
    /\ active_stats_key # None
    /\ ActiveMs(stats, active_stats_key[1]) = 2 * (500000 \div MicrosPerMilli)

\* C4: a Tick observed while paused or auto-paused empties the pressed set and clears
\* active_stats_key without crediting anything, and from then on no Tick credits any
\* time until a KeyDown is counted, even when the key was never released.
C4_SuspendedTickResets ==
    [][ /\ \A e \in Elapsed, ctx \in Contexts, d \in ClockSteps :
              ((paused \/ is_auto_paused(ctx)) /\ Tick(e, ctx, clock + d))
              => /\ pressed_non_modifier_keys' = {}
                 /\ active_stats_key' = None
                 /\ stats' = stats
        /\ (afterSuspendedTick /\ stats' # stats) => ~IsTick
      ]_vars

C4_HeldKeyAfterSuspendedTick ==
    /\ afterSuspendedTick
    /\ pressed_non_modifier_keys = {}
    /\ \E k \in PhysicalKeys : run[k].suspendedTick /\ run[k].counted = 1

\* What C5 says of the KeyDown handler: a KeyDown is dropped by the gate iff
\* ignore_key_combos is enabled and is_key_combo is true, and a dropped combo KeyDown is
\* not counted and does not enter the pressed set.
GateDropsExactlyCombos ==
    \A k \in PhysicalKeys, m \in ComboModifiers :
        KeyDown(k, m, has_any(m), CtxEditor, clock, 0, ThisMinute)
        => /\ (ignore_key_combos /\ has_any(m))
               => /\ stats' = stats
                  /\ pressed_non_modifier_keys' = pressed_non_modifier_keys
           /\ (~(ignore_key_combos /\ has_any(m)) /\ k \notin pressed_non_modifier_keys)
               => /\ TotalKeyCount(stats') = TotalKeyCount(stats) + 1
                  /\ k \in pressed_non_modifier_keys'

\* C5 as stated: the gate drops exactly the combos while ignore_key_combos is enabled,
\* a dropped combo KeyDown is not counted and does not enter the pressed set, and the
\* Ticks that follow a dropped combo credit no time until a KeyDown is counted.
C5_NoCreditAfterDroppedCombo ==
    [][ /\ GateDropsExactlyCombos
        /\ (IsTick /\ afterDroppedCombo # "no") => stats' = stats
      ]_vars

\* C5 amended: the same, the last part only for a combo dropped while the pressed set
\* was empty; a key that is already held keeps earning time through the dropped combo.
C5_NoCreditAfterComboDroppedWhileIdle ==
    [][ /\ GateDropsExactlyCombos
        /\ (IsTick /\ afterDroppedCombo = "idle") => stats' = stats
      ]_vars

C5_ComboDroppedWhileIdle ==
    /\ afterDroppedCombo = "idle"
    /\ ignore_key_combos
    /\ pressed_non_modifier_keys = {}
    /\ TotalKeyCount(stats) >= 1

\* C6 as stated: every bucket of the stats table with key_count >= 1 has
\* session_count >= 1.
C6_CountedBucketHasSession ==
    \A key \in DOMAIN stats : stats[key].key_count >= 1 => stats[key].session_count >= 1

\* C7 as stated: the first counted KeyDown after construction increments the
\* session_count of its bucket, however soon after start-up it arrives.
C7_FirstKeyDownStartsSession ==
    [][ (TotalKeyCount(stats) = 0 /\ TotalKeyCount(stats') = 1)
        => \E key \in DOMAIN stats' :
              stats'[key].key_count = 1 /\ stats'[key].session_count = 1
      ]_vars

\* The shortcut ids of the keys and modifier snapshots the bridge can report.
ShortcutKeys == {normalize_macos_keycode(k) : k \in PhysicalKeys}
ShortcutIds == {normalize_shortcut_id(m, key) : m \in ModifierSnapshot, key \in ShortcutKeys}

\* The filter as C8 words it.
Admits(m, id) ==
    IF id \in shortcut_blocklist THEN FALSE
    ELSE IF shortcut_allowlist # {} THEN id \in shortcut_allowlist
    ELSE /\ modifier_count(m) >= shortcut_min_modifiers
         /\ (shortcut_require_cmd_or_ctrl => (m.ctrl \/ m.cmd))
         /\ ~(m = OptOnly /\ ~shortcut_allow_alt_only)

\* C8: under every rule setting, for all 32 modifier snapshots and every shortcut id,
\* should_count_shortcut rejects an id of the blocklist; otherwise, with a non-empty
\* allowlist, accepts iff the id is in the allowlist; otherwise accepts iff the modifier
\* count is at least min_modifiers, require_cmd_or_ctrl implies ctrl or cmd, and opt is
\* not the sole modifier while allow_alt_only is false.
C8_AdmissionFilter ==
    \A m \in ModifierSnapshot, id \in ShortcutIds :
        should_count_shortcut(m, id) = Admits(m, id)

C8_BlockedAndAllowed ==
    /\ shortcut_blocklist = {"cmd_z"}
    /\ shortcut_allowlist = {"cmd_z"}
    /\ "cmd_z" \in ShortcutIds

\* The canonical id as C9 words it: the present modifiers in the order ctrl, opt,
\* shift, cmd, then the shortcut key, joined by '_'.
CanonicalId(m, key) ==
    (IF m.ctrl THEN "ctrl_" ELSE "") \o (IF m.opt THEN "opt_" ELSE "")
    \o (IF m.shift THEN "shift_" ELSE "") \o (IF m.cmd THEN "cmd_" ELSE "") \o key

CanonicalIds == {CanonicalId(m, key) : m \in ModifierSnapshot, key \in ShortcutKeys}

\* C9 as stated: every key of shortcut_usage is the canonical id of a KeyDown that
\* passed the admission filter; no other route inserts a key.
C9_UsageKeysFromAdmittedKeyDowns ==
    \A id \in DOMAIN shortcut_usage : id \in admitted /\ id \in CanonicalIds

\* C9 amended: every key of shortcut_usage is the canonical id of a KeyDown that passed
\* the admission filter, or was placed there by new_collector_state from the stored
\* analytics (a stored shortcut_usage copied as is, or the replay of stored chunks).
C9_UsageKeysAdmittedOrLoaded ==
    \A id \in DOMAIN shortcut_usage :
        id \in loadedIds \/ (id \in admitted /\ id \in CanonicalIds)

C9_LoadedAndAdmittedKeys ==
    /\ loadedIds # {}
    /\ \E id \in DOMAIN shortcut_usage : id \notin loadedIds /\ id \notin shortcut_allowlist

\* C10: a counted KeyDown whose id is admitted raises shortcut_usage[id].count and
\* shortcut_usage[id].by_app[app_id] by exactly 1 each and touches nothing else of the
\* table; a rejected or dropped KeyDown leaves the table as it is; and from an empty
\* start, for every id, count equals the sum of its by_app values.
C10_NoPartialShortcutCounting ==
    /\ [](loadedIds = {}
           => \A id \in DOMAIN shortcut_usage :
                 shortcut_usage[id].count
                    = SumMap(shortcut_usage[id].by_app, DOMAIN shortcut_usage[id].by_app))
    /\ [][ \/ (shortcut_usage' = shortcut_usage /\ stats' = stats)
            \/ \A k \in PhysicalKeys, m \in ShortcutModifiers, ctx \in ShortcutContexts :
              KeyDown(k, m, has_any(m), ctx, clock, 0, ThisMinute)
              => LET id == CanonicalId(m, normalize_macos_keycode(k))
                     app_id == app_id_from_context(ctx)
                     before == EntryOr(shortcut_usage, id, ZeroUsage)
                 IN IF /\ TotalKeyCount(stats') = TotalKeyCount(stats) + 1
                       /\ should_count_shortcut(m, id)
                    THEN /\ DOMAIN shortcut_usage' = DOMAIN shortcut_usage \cup {id}
                         /\ shortcut_usage'[id].count = before.count + 1
                         /\ DOMAIN shortcut_usage'[id].by_app
                              = DOMAIN before.by_app \cup {app_id}
                         /\ shortcut_usage'[id].by_app[app_id]
                              = EntryOr(before.by_app, app_id, 0) + 1
                         /\ \A a \in DOMAIN before.by_app \ {app_id} :
                               shortcut_usage'[id].by_app[a] = before.by_app[a]
                         /\ \A other \in DOMAIN shortcut_usage \ {id} :
                               shortcut_usage'[other] = shortcut_usage[other]
                    ELSE shortcut_usage' = shortcut_usage
          ]_vars

C10_AdmittedAndRejectedKeyDowns ==
    /\ loadedIds = {}
    /\ TotalKeyCount(stats) = 2
    /\ \E id \in DOMAIN shortcut_usage :
          shortcut_usage[id].count = 1 /\ shortcut_usage[id].by_app = ("Unknown" :> 1)

\* The closed form push_finished_chunk gives an open chunk.
ClosedChunk(chunk) == [v |-> 1, chunk_start_ms |-> chunk.chunk_start_ms,
                       app_ref |-> chunk.app_ref, events |-> chunk.events]

\* The step ends the open chunk: none is open afterwards, or a fresh one is.
OpenChunkEnds ==
    /\ open_event_chunk # None
    /\ \/ open_event_chunk' = None
       \/ Len(open_event_chunk'[1].events) <= Len(open_event_chunk[1].events)

AllChunks ==
    {event_chunks[i] : i \in 1..Len(event_chunks)}
        \cup (IF open_event_chunk = None THEN {} ELSE {ClosedChunk(open_event_chunk[1])})

Last(seq) == seq[Len(seq)]

\* C12: every chunk holds between 1 and INPUT_CHUNK_MAX_EVENTS events; an append rotates
\* exactly when no chunk is open, the open chunk belongs to another app_ref, is
\* INPUT_CHUNK_WINDOW_MS old or holds INPUT_CHUNK_MAX_EVENTS events; the event lands in a
\* chunk of its own app_ref, after the events already there, with dt in [0, 5000).
C12_ChunksBoundedByAppWindowAndCount ==
    /\ [](\A chunk \in AllChunks :
              Len(chunk.events) >= 1 /\ Len(chunk.events) <= INPUT_CHUNK_MAX_EVENTS)
    /\ [][\A ctx \in BurstContexts, now_ms \in BurstReadings :
            KeyUp("mac:6", NoMods, ctx, now_ms)
            => LET ref == app_ref_by_app'[app_id_from_context(ctx)]
                   new == open_event_chunk'[1]
                   rotates == \/ open_event_chunk = None
                              \/ open_event_chunk[1].app_ref # ref
                              \/ now_ms - open_event_chunk[1].chunk_start_ms
                                     >= INPUT_CHUNK_WINDOW_MS
                              \/ Len(open_event_chunk[1].events) >= INPUT_CHUNK_MAX_EVENTS
                   event == parse_compact_event(Last(new.events))
               IN /\ new.app_ref = ref
                  /\ event # None /\ event[1].dt >= 0 /\ event[1].dt < INPUT_CHUNK_WINDOW_MS
                  /\ IF rotates
                     THEN /\ new.chunk_start_ms = now_ms
                          /\ Len(new.events) = 1
                          /\ open_event_chunk # None
                             => Last(event_chunks') = ClosedChunk(open_event_chunk[1])
                     ELSE /\ new.chunk_start_ms = open_event_chunk[1].chunk_start_ms
                          /\ SubSeq(new.events, 1, Len(new.events) - 1)
                                 = open_event_chunk[1].events
                          /\ event_chunks' = event_chunks]_vars

\* A chunk closed because it was full, and the event that did not fit in a chunk of its own.
C12_FullChunkRotated ==
    /\ \E i \in 1..Len(event_chunks) :
           Len(event_chunks[i].events) = INPUT_CHUNK_MAX_EVENTS
    /\ open_event_chunk # None
    /\ Len(open_event_chunk[1].events) = 1

\* C13: the event an append stores has dt >= 0 and chunk_start_ms + dt equal to the
\* wall-clock reading now_ms the append was given, whatever the readings are.
C13_OffsetReconstructsReading ==
    [][\A ctx \in EncoderContexts, now_ms \in WallReadings :
          (\/ KeyUp("mac:6", NoMods, ctx, now_ms)
           \/ /\ KeyDown("mac:6", NoMods, FALSE, ctx, clock, now_ms, ThisMinute)
              /\ budget' # budget)
          => LET chunk == open_event_chunk'[1]
                 event == parse_compact_event(Last(chunk.events))
             IN /\ event # None
                /\ event[1].dt >= 0
                /\ chunk.chunk_start_ms + event[1].dt = now_ms]_vars

\* Every app_ref in use: the keys of app_dict and the app_ref of every chunk.
AssignedRefs == DOMAIN app_dict \cup {chunk.app_ref : chunk \in AllChunks}

\* C14: next_app_ref is at least 1 and above every app_ref in use, up to the top of the
\* counter's range.
C14_NextAppRefAboveAssigned ==
    /\ next_app_ref >= 1
    /\ \A r \in AssignedRefs : next_app_ref > r

\* C15: an entry of the app dictionary stays, in both directions, through every step.
C15_DictionaryAppendOnly ==
    [][\A r \in DOMAIN app_dict :
          /\ r \in DOMAIN app_dict'
          /\ app_dict'[r] = app_dict[r]
          /\ app_dict[r] \in DOMAIN app_ref_by_app'
          /\ app_ref_by_app'[app_dict[r]] = r]_vars

\* The step is a tick-loop pass of the storage machine whose periodic save was due.
StorageFlushStep ==
    \E mo \in StorageMoments : TickLoop(500000, CtxEditor, clock, mo.now_ms, TRUE)

\* The step ran save_stats and save_input_analytics.
StorageSaveStep == StorageFlushStep \/ ClearStats

\* C16: over an empty data directory, load_stats after save_stats returns the bucket map
\* that was saved, key for key and counter for counter.
C16_BucketRoundTrip ==
    [][(stats_files = EmptyMap /\ legacy_stats_file = None /\ StorageSaveStep)
       => load_stats(stats_files', legacy_stats_file') = stats']_vars

\* A bucket typed in this run, with active typing time, saved in its shard; the
\* directory loads back as the bucket map in memory.
C16_TypedBucketSavedAndLoadable ==
    /\ \E key \in DOMAIN stats :
           stats[key].active_typing_ms > 0 /\ stats[key].session_count = 0
    /\ \A key \in DOMAIN stats : date_prefix(key.date)[1] \in DOMAIN stats_files
    /\ legacy_stats_file = None
    /\ load_stats(stats_files, legacy_stats_file) = stats

\* The stored row of a bucket.
StoredRowOf(key, value) ==
    [date |-> key.date, app_name |-> key.app_name, window_title |-> key.window_title,
     active_typing_ms |-> value.active_typing_ms, key_count |-> value.key_count,
     session_count |-> value.session_count]

Occurrences(seq, x) == Cardinality({i \in 1..Len(seq) : seq[i] = x})

\* C17: after save_stats every bucket row is in the shard named by the first ten
\* characters of its date, once, and in no other shard, and there is no legacy file.
C17_RowsInTheirDailyShard ==
    [][StorageSaveStep
       => /\ legacy_stats_file' = None
          /\ \A key \in DOMAIN stats' :
                /\ date_prefix(key.date)[1] \in DOMAIN stats_files'
                /\ \A p \in DOMAIN stats_files' :
                      /\ Occurrences(stats_files'[p], StoredRowOf(key, stats'[key]))
                            = IF p = date_prefix(key.date)[1] THEN 1 ELSE 0
                      /\ p # date_prefix(key.date)[1]
                         => \A i \in 1..Len(stats_files'[p]) :
                                RowKey(stats_files'[p][i]) # key]_vars

\* The row loaded from the legacy file now sits in its daily shard and the legacy file is
\* gone (no key has been counted in this run yet).
C17_LegacyRowMovedToShard ==
    /\ budget = MaxLog
    /\ stats # EmptyMap
    /\ legacy_stats_file = None
    /\ "2026-02-09" \in DOMAIN stats_files
    /\ stats_files["2026-02-09"] = LegacyRows

IsAscending(chunks) ==
    \A i \in 1..(Len(chunks) - 1) : chunks[i].chunk_start_ms <= chunks[i + 1].chunk_start_ms

SameChunks(a, b) ==
    /\ Len(a) = Len(b)
    /\ \A i \in 1..Len(a) : Occurrences(a, a[i]) = Occurrences(b, a[i])

\* What every save and load of the analytics agree on: the chunks come back in ascending
\* chunk_start_ms, shortcut_usage comes back empty, app_dict holds the entry of every
\* app_ref a saved chunk refers to.
AnalyticsComeBack(loaded) ==
    /\ SameChunks(loaded.event_chunks, event_chunks')
    /\ IsAscending(loaded.event_chunks)
    /\ loaded.shortcut_usage = EmptyMap
    /\ \A r \in ChunkRefs(event_chunks') :
          r \in DOMAIN loaded.app_dict /\ loaded.app_dict[r] = app_dict'[r]

C20_ClearedStateIsPersisted ==
    [][ClearStats
       => /\ load_stats(stats_files', legacy_stats_file') = EmptyMap
          /\ load_input_analytics(analytics_files', legacy_analytics_file').event_chunks
                = << >>]_vars

\* The data directory holds the chunk log of the state: the last save closed the open
\* chunk and nothing was appended since.
LogIsFlushed ==
    /\ open_event_chunk = None
    /\ LET loaded == load_input_analytics(analytics_files, legacy_analytics_file)
       IN loaded.event_chunks = event_chunks /\ loaded.shortcut_usage = EmptyMap

\* C19: a restart right after a flush rebuilds shortcut_usage with the count and the
\* by_app values it had in memory, for every id.
C19_ShortcutCountsSurviveRestart ==
    [][(LogIsFlushed /\ Restart(TestConfig)) => shortcut_usage' = shortcut_usage]_vars

\* C21: whenever the collector is paused by the user, no key is in the pressed set and
\* there is no active bucket: set_paused(true) clears both, and a KeyDown that arrives
\* while paused returns before the insert.
C21_PausedHoldsNoKeys ==
    paused => pressed_non_modifier_keys = {} /\ active_stats_key = None

\* A key was counted, and the collector is paused with a key run that was cut by the
\* pause (or by a KeyDown that arrived while paused).
C21_PausedAfterTyping ==
    /\ paused
    /\ TotalKeyCount(stats) > 0
    /\ \E k \in PhysicalKeys : run[k].tainted

\* Every bucket of the table is still there after the step, with no counter lower.
BucketsMonotone ==
    \A key \in DOMAIN stats :
        /\ key \in DOMAIN stats'
        /\ stats'[key].active_typing_ms >= stats[key].active_typing_ms
        /\ stats'[key].key_count >= stats[key].key_count
        /\ stats'[key].session_count >= stats[key].session_count

C23_PoisonedCommandsChangeNothing ==
    [][(lock_poisoned /\ PoisonedCommand)
          => /\ UNCHANGED commandReach
             /\ reply' = Some(LockFailedSnapshot)
             /\ reply'[1].last_error = "state lock failed"]_vars

\* The lock was poisoned after a key was counted and the collector was left unpaused,
\* and a command has just returned the marker snapshot.
C23_MarkerReturnedAfterPanic ==
    /\ lock_poisoned
    /\ reply = Some(LockFailedSnapshot)
    /\ TotalKeyCount(stats) > 0
    /\ ~paused
    /\ keyboard_active

\* A tick-thread pass that credits typing time: a key is held in a bucket and the
\* collector is neither paused nor auto-paused by the pass's context.
CreditingPass ==
    \E ctx \in SurfaceContexts, due \in BOOLEAN :
        /\ TickThreadPass(500000, ctx, clock, 0, due)
        /\ ~tick_suspended(paused, is_auto_paused(ctx))
        /\ tick_accumulates

\* C24: when the platform listener returns an error, keyboard_active becomes false and
\* last_error is set to the error; the listener is not started again, so keyboard_active
\* is false in every later state of the process; and the tick thread goes on: a pass is
\* still possible and still credits the held key's bucket.
C24_ListenerFailureIsFinal ==
    /\ [][\A err \in ListenerErrors :
             ListenerError(err) => (~keyboard_active' /\ last_error' = err)]_vars
    /\ [][(~keyboard_active) => (~keyboard_active' /\ ~listener_running')]_vars
    /\ [](~keyboard_active => ENABLED ListenerTick)
    /\ [][(~keyboard_active /\ CreditingPass)
             => TotalActiveMs(stats') = TotalActiveMs(stats) + 500]_vars

\* The listener failed while a key was held; since then the tick thread has credited
\* the key's bucket up to the bound and saved it.
C24_TicksAfterListenerFailure ==
    /\ ~keyboard_active
    /\ last_error = "EventTapError"
    /\ pressed_non_modifier_keys # {}
    /\ TotalActiveMs(stats) = MaxActiveMs
    /\ stats_files # EmptyMap

\* The chunks the state holds, closed ones first, then the open one.
HeldChunks ==
    event_chunks \o (IF open_event_chunk = None THEN << >> ELSE <<open_event_chunk[1]>>)

\* The event format_compact_event wrote into a compact string, read back field by field:
\* the offset first, the type second, the mask last, the key in between.
WrittenEvent(raw) ==
    [dt |-> ParseNumber(raw[1], INPUT_CHUNK_WINDOW_MS)[1],
     event_type |-> raw[2],
     key |-> JoinComma(SubSeq(raw, 3, Len(raw) - 1)),
     modifiers |-> from_bitmask(ParseNumber(raw[Len(raw)], MaxMask)[1])]

\* The positions of the held 'd' events that pass the admission filter in force, carry
\* the shortcut id and lie in [start_ms, end_ms).
DownEventsIn(shortcut_id, start_ms, end_ms) ==
    {pos \in {<<c, j>> : c \in 1..Len(HeldChunks), j \in 1..INPUT_CHUNK_MAX_EVENTS} :
        /\ pos[2] <= Len(HeldChunks[pos[1]].events)
        /\ LET e == WrittenEvent(HeldChunks[pos[1]].events[pos[2]])
               event_ms == HeldChunks[pos[1]].chunk_start_ms + e.dt
           IN /\ e.event_type = "d"
              /\ normalize_shortcut_id(e.modifiers, e.key) = shortcut_id
              /\ should_count_shortcut(e.modifiers, shortcut_id)
              /\ start_ms <= event_ms /\ event_ms < end_ms}

\* The count a leaderboard gives a shortcut id, 0 when it has no row.
CountedIn(rows, shortcut_id) ==
    IF \E i \in 1..Len(rows) : rows[i].shortcut_id = shortcut_id
    THEN rows[CHOOSE i \in 1..Len(rows) : rows[i].shortcut_id = shortcut_id].count
    ELSE 0

\* The window of a range selector: today from local midnight to the next, yesterday
\* the day before it, anything else the seven days that end at tomorrow's midnight.
LocalMidnight(now_ms) == now_ms - (now_ms % MsPerDay)
RangeWindow(range, now_ms) ==
    IF range = "today" THEN <<LocalMidnight(now_ms), LocalMidnight(now_ms) + MsPerDay>>
    ELSE IF range = "yesterday"
         THEN <<LocalMidnight(now_ms) - MsPerDay, LocalMidnight(now_ms)>>
    ELSE <<LocalMidnight(now_ms) + MsPerDay - 7 * MsPerDay,
           LocalMidnight(now_ms) + MsPerDay>>

RangeIds == {"z", "cmd_z", "cmd_,"}

\* C25: snapshot_shortcut_rows_by_range counts exactly the 'd' events of the closed
\* chunks and the open chunk that pass the current admission filter and whose
\* chunk_start_ms + dt lies in the half-open window of the range: every shortcut id gets
\* the number of those events as its count, and no other row is returned.
C25_RangeCountsEventsInWindow ==
    [][\A range \in RangeSelectors :
          get_shortcut_stats_by_range(range, RangeNow)
             => LET rows == reply'[1].shortcut_stats
                    window == RangeWindow(range, RangeNow)
                IN /\ \A i \in 1..Len(rows) :
                         rows[i].shortcut_id \in RangeIds /\ rows[i].count > 0
                   /\ \A id \in RangeIds :
                         CountedIn(rows, id)
                            = Cardinality(DownEventsIn(id, window[1], window[2]))]_vars

\* Bit i of a mask.
Bit(mask, i) == (mask \div (2 ^ i)) % 2 = 1

\* The event a step appended: the last one of the open chunk after it.
AppendedEvent == Last(open_event_chunk'[1].events)

\* C26: the modifier bitmask round-trips. For each of the 32 modifier snapshots s,
\* from_bitmask(bitmask(s)) = s, with bit 0 ctrl, bit 1 opt, bit 2 shift, bit 3 cmd and
\* bit 4 fn; and decoding the mask the encoder wrote into a key event's compact string
\* gives the snapshot the key event was handled with.
C26_ModifierBitmaskRoundTrip ==
    /\ [](\A s \in ModifierSnapshot :
             /\ from_bitmask(bitmask(s)) = s
             /\ bitmask(s) \in 0..31
             /\ Bit(bitmask(s), 0) = s.ctrl
             /\ Bit(bitmask(s), 1) = s.opt
             /\ Bit(bitmask(s), 2) = s.shift
             /\ Bit(bitmask(s), 3) = s.cmd
             /\ Bit(bitmask(s), 4) = s.function)
    /\ [][open_event_chunk' # open_event_chunk
             => /\ parse_compact_event(AppendedEvent) # None
                /\ LET m == from_bitmask(parse_compact_event(AppendedEvent)[1].modifier_mask)
                   IN  \E ctx \in ModifierContexts :
                          \/ on_non_modifier_key_up("mac:6", m, ctx, 0)
                          \/ on_non_modifier_key_down("mac:6", m, has_any(m), ctx, clock, 0,
                                                      ThisMinute)]_vars

\* The log holds a key event written under all five modifiers: mask 31.
C26_AllModifiersWritten ==
    /\ open_event_chunk # None
    /\ \E i \in 1..Len(open_event_chunk[1].events) :
          /\ Last(open_event_chunk[1].events[i]) = "31"
          /\ from_bitmask(parse_compact_event(open_event_chunk[1].events[i])[1].modifier_mask)
                = Mods(TRUE, TRUE, TRUE, TRUE, TRUE)


\* C27: a counted KeyDown adds one to its bucket's session_count exactly when the time
\* since last_typing_instant is strictly greater than session_gap; a delta equal to
\* session_gap starts no session; key_count grows by one in both cases.
C27_SessionStartsStrictlyAfterGap ==
    [][\A k \in PhysicalKeys, ctx \in SessionContexts, d \in SessionSteps :
          (/\ KeyDown(k, NoMods, FALSE, ctx, clock + d, 0, ThisMinute)
           /\ k \notin pressed_non_modifier_keys
           /\ k \in pressed_non_modifier_keys')
             => LET key == stats_key_from_context(ctx, ThisMinute)
                    before == EntryOr(stats, key, ZeroStats)
                    after == EntryOr(stats', key, ZeroStats)
                    delta == (clock + d) - last_typing_instant
                IN  /\ after.key_count = before.key_count + 1
                    /\ (after.session_count = before.session_count + 1)
                          <=> (delta > session_gap)
                    /\ after.session_count \in {before.session_count,
                                                before.session_count + 1}
                    /\ (delta = session_gap
                          => after.session_count = before.session_count)]_vars

\* Two keys were counted, no tick credited time, and the later KeyDown arrived exactly
\* session_gap after the last typing instant: no bucket counts a session.
C27_KeyDownExactlyAtGap ==
    /\ Cardinality(pressed_non_modifier_keys) = 2
    /\ TotalKeyCount(stats) = 2
    /\ TotalActiveMs(stats) = 0
    /\ last_typing_instant = session_gap
    /\ \A key \in DOMAIN stats : stats[key].session_count = 0


\* A KeyDown of the frame machine that is counted: not paused, context not auto-paused,
\* combo not ignored, key not already held.
FrameCountedKeyDown ==
    \E m \in FrameModifiers, ctx \in FrameContexts :
        /\ on_non_modifier_key_down("mac:6", m, has_any(m), ctx, clock, 0, ThisMinute)
        /\ ~paused
        /\ ~is_auto_paused(ctx)
        /\ ~(ignore_key_combos /\ has_any(m))
        /\ "mac:6" \notin pressed_non_modifier_keys

\* A Tick of the frame machine that credits time: not paused, context not auto-paused,
\* a key held.
FrameCreditingTick ==
    \E ctx \in FrameContexts, d \in FrameSteps :
        /\ TickThreadPass(500000, ctx, clock + d, 0, FALSE)
        /\ ~paused
        /\ ~is_auto_paused(ctx)
        /\ pressed_non_modifier_keys # {}
        /\ TotalActiveMs(stats') = TotalActiveMs(stats) + 500

\* C28: last_typing_instant changes only in a counted KeyDown and in a Tick that credits
\* time. Dropped KeyDowns, KeyUps, Ticks that credit nothing (paused, auto-paused, no key
\* held) and every command of the control surface leave it unchanged.
C28_OnlyAccountingMovesLastTypingInstant ==
    /\ [][last_typing_instant' # last_typing_instant
             => FrameCountedKeyDown \/ FrameCreditingTick]_vars
    /\ [][FrameKeyUp \/ FrameCommand => UNCHANGED last_typing_instant]_vars
    /\ [][(FrameKeyDown /\ ~FrameCountedKeyDown) \/ (FrameTick /\ ~FrameCreditingTick)
             => UNCHANGED last_typing_instant]_vars

\* Typing was recorded after the start, and a later event moved the clock on without
\* recording any: the last typing instant lies between the start and the clock.
C28_LaterEventLeftInstantBehind ==
    /\ last_typing_instant > 0
    /\ last_typing_instant < clock


\* A KeyDown of the frame machine that is dropped: the collector is paused, the context
\* is auto-paused, the combo is ignored, or the key is already held.
FrameDroppedKeyDown(m, ctx) ==
    /\ on_non_modifier_key_down("mac:6", m, has_any(m), ctx, clock, 0, ThisMinute)
    /\ \/ paused
       \/ is_auto_paused(ctx)
       \/ ignore_key_combos /\ has_any(m)
       \/ "mac:6" \in pressed_non_modifier_keys

\* C30: a dropped KeyDown (collector paused, context auto-paused, combo ignored, or key
\* already in the pressed set) leaves stats, shortcut_usage, the event chunks, the app
\* dictionary, the pressed set, active_stats_key and last_typing_instant unchanged, and
\* with them the user pause, the settings and the data directory; only auto_paused and
\* auto_pause_reason may change.
C30_DroppedKeyDownChangesOnlyAutoPause ==
    [][\A m \in FrameModifiers, ctx \in FrameContexts :
          FrameDroppedKeyDown(m, ctx)
             => /\ UNCHANGED <<stats, shortcut_usage, event_chunks, open_event_chunk,
                               app_dict, app_ref_by_app, next_app_ref,
                               pressed_non_modifier_keys, active_stats_key,
                               last_typing_instant>>
                /\ UNCHANGED <<paused, configVars, ruleVars, diskVars, runtimeVars>>
                /\ auto_paused' = is_auto_paused(ctx)
                /\ auto_pause_reason' = auto_pause_reason_of(ctx)]_vars

\* A key is held and counted once, and a KeyDown under secure input was dropped after
\* it: the auto-pause flags are set while the pressed set and the counters stand.
C30_DroppedUnderSecureInputWhileHeld ==
    /\ pressed_non_modifier_keys = {"mac:6"}
    /\ TotalKeyCount(stats) = 1
    /\ auto_paused
    /\ auto_pause_reason = auto_pause_reason_of(CtxEditorSecure)
    /\ ~paused


\* C29: a KeyUp whose key is not in the pressed set changes nothing but the compact log,
\* which gains one 'u' event (with the chunk rotation and the app-dictionary entry the
\* append may cause): stats, shortcut_usage, the pressed set, active_stats_key,
\* last_typing_instant and the pause flags are unchanged.
C29_KeyUpOfAbsentKeyOnlyLogs ==
    [][\A k \in PhysicalKeys :
          (KeyUp(k, NoMods, CtxEditor, 0) /\ k \notin pressed_non_modifier_keys)
             => /\ UNCHANGED <<stats, shortcut_usage, pressed_non_modifier_keys,
                               active_stats_key, last_typing_instant, paused, auto_paused,
                               auto_pause_reason>>
                /\ LogLen' = LogLen + 1
                /\ open_event_chunk' # None
                /\ Last(open_event_chunk'[1].events)[2] = "u"]_vars

\* A key is held with its bucket active, and the log ends with the 'u' event of a key
\* that was not held.
C29_AbsentKeyReleasedWhileAnotherHeld ==
    /\ Cardinality(pressed_non_modifier_keys) = 1
    /\ active_stats_key # None
    /\ open_event_chunk # None
    /\ LET last == Last(open_event_chunk[1].events)
       IN  /\ last[2] = "u"
           /\ \A k \in pressed_non_modifier_keys : last[3] # normalize_macos_keycode(k)


\* Every bucket of the table is in the daily shard of its date with the counters it has
\* in memory.
BucketsOnDisk ==
    \A day \in StatsDates(stats) :
        /\ day \in DOMAIN stats_files
        /\ stats_files[day] = RowsOfDay(stats_to_rows(stats), day)

\* The daily shards hold the bucket table: the buckets of each day, and no rows for a
\* day the table has none for.
ShardsHoldTable ==
    /\ BucketsOnDisk
    /\ \A day \in DOMAIN stats_files \ StatsDates(stats) : stats_files[day] = << >>

\* A flush whose save fails leaves the bucket table as the Tick of the same pass left
\* it; a flush that saves follows, and after it every bucket in the table is on disk.
FailedFlushKeepsTable ==
    /\ [][FlushSaveFails => stats' \in {stats, accumulate_active_typing_for_tick(999)}]_vars
    /\ ~BucketsOnDisk ~> BucketsOnDisk

\* C31: under fair scheduling of the tick thread, an unpoisoned lock and I/O that
\* succeeds again and again, every change to the bucket table is eventually written to
\* its daily shard: whenever the shards differ from the table, they later hold it.
C31_TableChangesReachTheShards == ~ShardsHoldTable ~> ShardsHoldTable


\* C32: on the non-macOS listener the is_key_combo flag delivered with a KeyDown is true
\* iff at least one modifier key (left or right variant of ctrl, alt, shift, meta, or fn)
\* is held at that moment according to the presses and releases seen so far.
C32_ComboFlagIffModifierHeld ==
    [][\A ctx \in NonMacContexts :
          on_key_event_non_macos("KeyX", TRUE, ctx, clock, 0, ThisMinute)
             => (has_any(ModifierState_snapshot(modifier_state))
                    <=> held_modifier_keys # {})]_vars


\* C33: a bucket is created only by a counted KeyDown: every bucket present in the
\* stats table has key_count >= 1, in every state reached from an empty table through
\* events and control operations, clear_stats included.
C33_EveryBucketHasAKey == \A key \in DOMAIN stats : stats[key].key_count >= 1


\* C34: in every reachable state active_stats_key is set iff pressed_non_modifier_keys
\* is non-empty.
C34_ActiveKeyIffKeyHeld == (active_stats_key # None) <=> (pressed_non_modifier_keys # {})


\* The last held key was released: its 'u' event ends the log, no key is held any more
\* and the active bucket key is cleared although the table has a bucket.
C34_LastKeyReleased ==
    /\ pressed_non_modifier_keys = {}
    /\ active_stats_key = None
    /\ DOMAIN stats # {}
    /\ open_event_chunk # None
    /\ open_event_chunk[1].events # <<>>
    /\ Last(open_event_chunk[1].events)[2] = "u"


\* C35: nothing is logged while capture is suppressed: when the collector is user-paused,
\* or the event's capture context is auto-paused (secure input or excluded application),
\* no key event of either type adds a compact event to a chunk or an entry to the app
\* dictionary.
C35_NothingLoggedWhileSuppressed ==
    [][(\/ (paused \/ is_auto_paused(CtxEditor)) /\ FrameKeyUp
        \/ \E m \in FrameModifiers, ctx \in FrameContexts :
              /\ paused \/ is_auto_paused(ctx)
              /\ on_non_modifier_key_down("mac:6", m, has_any(m), ctx, clock, 0, ThisMinute))
          => UNCHANGED <<event_chunks, open_event_chunk, app_dict, app_ref_by_app,
                         next_app_ref>>]_vars


\* ---------------------------------------------------------- the credit machine
\* The running collector: the tick thread sleeps for collector_tick_interval, takes the
\* lock and hands the Tick event the whole time since its previous pass, while the
\* listener delivers key events at any instant in between.

\* AppConfig::collector_tick_interval with the default of one second
collector_tick_interval == 1 * MicrosPerSec

CreditSteps == {0, 400000, 600000}
CreditContexts == {CtxEditor, CtxEditorSecure}

InitCredit ==
    /\ DataDirWith(NoAnalytics)
    /\ budget = MaxLog
    /\ held_micros = Some(0)
    /\ Started(TestConfig)

CreditKeyDown ==
    \E k \in PhysicalKeys, ctx \in CreditContexts, d \in CreditSteps :
        on_non_modifier_key_down(k, NoMods, FALSE, ctx, clock + d, 0, ThisMinute)

CreditKeyUp ==
    \E k \in pressed_non_modifier_keys : on_non_modifier_key_up(k, NoMods, CtxEditor, 0)

CreditTick ==
    \E ctx \in CreditContexts, d \in CreditSteps :
        LET now == clock + d
        IN  /\ now >= last_tick_instant + collector_tick_interval
            /\ TickThreadPass(duration_since(now, last_tick_instant), ctx, now, 0, FALSE)

CreditPause == \E value \in BOOLEAN : update_paused(value)

NextCredit == CreditKeyDown \/ CreditKeyUp \/ CreditTick \/ CreditPause

SpecCredit == InitCredit /\ [][NextCredit]_vars

\* C36: credited time never exceeds held time: in the running collector, where each
\* Tick's elapsed is the whole interval since the previous Tick, the total
\* active_typing_ms credited is at most the total monotonic time during which a counted
\* key was in the pressed set.
C36_CreditedAtMostHeld ==
    held_micros # None => TotalActiveMs(stats) * MicrosPerMilli <= held_micros[1]


\* The parse the round trip expects of the event a key event appended at wall-clock
\* now_ms: the offset into the open chunk, the event type, the key and the modifier mask.
ExpectedParse(event_type, key, modifiers, now_ms) ==
    Some([dt |-> Max(now_ms - open_event_chunk'[1].chunk_start_ms, 0),
          event_type |-> event_type, key |-> key, modifier_mask |-> bitmask(modifiers)])

\* C37: compact event round-trip: for every event string written by append_input_event,
\* for any event type, modifier snapshot and shortcut key of the canonical alphabet
\* (letters, punctuation keys such as ','), parse_compact_event returns Some with the
\* same dt, type, key and modifiers.
C37_CompactEventRoundTrip ==
    [][/\ \A stroke \in RangeStrokes, now_ms \in RangeReadings :
             (/\ LogLen' = LogLen + 1
              /\ on_non_modifier_key_down(stroke.key, stroke.modifiers,
                                          has_any(stroke.modifiers), CtxEditor, clock,
                                          now_ms, ThisMinute))
                => parse_compact_event(AppendedEvent)
                      = ExpectedParse("d", normalize_macos_keycode(stroke.key),
                                     stroke.modifiers, now_ms)
       /\ RangeKeyUp
             => parse_compact_event(AppendedEvent) = ExpectedParse("u", "z", CmdOnly, RangeNow)
      ]_vars


\* ------------------------------------------------------------ the lock machine
\* The two Mutexes of AppState and the threads that take them. A handler is the
\* sequence of lock operations its code performs; the work done under the locks is
\* left out here (the other machines run each handler as one step under the lock).
LockInner == "inner.lock()"
LockConfig == "config.lock()"
DropConfig == "drop(config)"
DropInner == "drop(locked)"

\* Fault variant of lock_plans: command_b takes the config lock before the state lock.
lock_plans_config_first(thread) ==
    IF thread = "command_b" THEN {<<LockConfig, LockInner, DropInner, DropConfig>>}
    ELSE IF thread = "command_a" THEN {<<LockInner, LockConfig, DropConfig, DropInner>>}
    ELSE {<<LockInner, DropInner>>}

\* The lock operations of the handlers a thread runs: a control command that writes the
\* config takes the config lock inside the state lock and drops it first; every other
\* handler (key event, tick-thread pass, tray refresh, a reading command) takes the
\* state lock alone.
lock_plans(thread) ==
    IF thread \in {"command_a", "command_b"}
    THEN {<<LockInner, LockConfig, DropConfig, DropInner>>, <<LockInner, DropInner>>}
    ELSE {<<LockInner, DropInner>>}

dataVars == <<typingVars, pauseVars, configVars, ruleVars, dictVars, chunkVars,
              shortcut_usage, clock, historyVars, budget, diskVars, runtimeVars,
              commandVars, modifierVars, tickVars, unloaded>>

\* The thread is at the lock operation op of its handler.
At(thread, op) == thread_pc[thread] # <<>> /\ Head(thread_pc[thread]) = op

InitLocks == NewCollectorState(TestConfig, NoAnalytics)

CallHandler(thread) ==
    /\ thread_pc[thread] = <<>>
    /\ \E plan \in lock_plans(thread) : thread_pc' = [thread_pc EXCEPT ![thread] = plan]
    /\ UNCHANGED <<inner_lock, config_lock, dataVars>>

TakeInner(thread) ==
    /\ At(thread, LockInner)
    /\ inner_lock = None
    /\ inner_lock' = Some(thread)
    /\ thread_pc' = [thread_pc EXCEPT ![thread] = Tail(@)]
    /\ UNCHANGED <<config_lock, dataVars>>

TakeConfig(thread) ==
    /\ At(thread, LockConfig)
    /\ config_lock = None
    /\ config_lock' = Some(thread)
    /\ thread_pc' = [thread_pc EXCEPT ![thread] = Tail(@)]
    /\ UNCHANGED <<inner_lock, dataVars>>

ReleaseConfig(thread) ==
    /\ At(thread, DropConfig)
    /\ config_lock' = None
    /\ thread_pc' = [thread_pc EXCEPT ![thread] = Tail(@)]
    /\ UNCHANGED <<inner_lock, dataVars>>

ReleaseInner(thread) ==
    /\ At(thread, DropInner)
    /\ inner_lock' = None
    /\ thread_pc' = [thread_pc EXCEPT ![thread] = Tail(@)]
    /\ UNCHANGED <<config_lock, dataVars>>

NextLocks ==
    \E thread \in Threads :
        \/ CallHandler(thread)
        \/ TakeInner(thread)
        \/ TakeConfig(thread)
        \/ ReleaseConfig(thread)
        \/ ReleaseInner(thread)

\* A thread that holds a lock goes on to drop it; a free config lock is taken by the
\* thread at it; the state lock, contended by all threads, goes to each waiting thread
\* in the end (the threads sleep or wait for input between two handlers).
SpecLocks ==
    /\ InitLocks
    /\ [][NextLocks]_vars
    /\ \A thread \in Threads :
          /\ SF_vars(TakeInner(thread))
          /\ WF_vars(TakeConfig(thread))
          /\ WF_vars(ReleaseConfig(thread))
          /\ WF_vars(ReleaseInner(thread))

RecoverMinutes == {"2026-02-09 23:59", "2026-02-10 00:00"}

InitRecover == NewCollectorState(TestConfig, NoAnalytics)

RecoverKeyDown ==
    \E minute \in RecoverMinutes :
        on_non_modifier_key_down("mac:6", CmdOnly, TRUE, CtxEditor, clock, 0, minute)

RecoverKeyUp == on_non_modifier_key_up("mac:6", CmdOnly, CtxEditor, 0)

RecoverFlush == TickThreadPass(999, CtxEditor, clock, 0, TRUE)

RecoverReset == reset_stats

RecoverRestart == Restart(TestConfig)

RecoverFailedLoad ==
    \E stats_fails, analytics_fails \in BOOLEAN :
        Restart_load_fails(TestConfig, stats_fails, analytics_fails)

NextRecover ==
    \/ RecoverKeyDown
    \/ RecoverKeyUp
    \/ RecoverFlush
    \/ RecoverReset
    \/ RecoverRestart
    \/ RecoverFailedLoad

SpecRecover == InitRecover /\ [][NextRecover]_vars

\* The daily detail shard is as the failed load of the last start-up left it.
StatsShardNotLoaded(date) ==
    date \in DOMAIN stats_files /\ stats_files[date] = unloaded.stats_files[date]

\* The daily analytics shard is as the failed load of the last start-up left it.
AnalyticsShardNotLoaded(day) ==
    day \in DOMAIN analytics_files /\ analytics_files[day] = unloaded.analytics_files[day]

\* After the step the detail shard is there with every row it had.
StatsShardIntact(date) ==
    /\ date \in DOMAIN stats_files'
    /\ \A i \in 1..Len(stats_files[date]) :
          \E j \in 1..Len(stats_files'[date]) : stats_files'[date][j] = stats_files[date][i]

\* After the step the analytics shard is there with every chunk it had.
AnalyticsShardIntact(day) ==
    /\ day \in DOMAIN analytics_files'
    /\ \A i \in 1..Len(analytics_files[day].event_chunks) :
          \E j \in 1..Len(analytics_files'[day].event_chunks) :
              analytics_files'[day].event_chunks[j] = analytics_files[day].event_chunks[i]

\* C39: a failed load does not cost persisted history: when load_input_analytics or
\* load_stats failed at start-up and the state started empty, the next flush or clear
\* leaves every daily shard that was not loaded intact, neither deleted nor overwritten
\* with less data.
C39_FailedLoadCostsNoHistory ==
    [][(RecoverFlush \/ RecoverReset)
          => /\ \A date \in DOMAIN unloaded.stats_files :
                   StatsShardNotLoaded(date) => StatsShardIntact(date)
             /\ \A day \in DOMAIN unloaded.analytics_files :
                   AnalyticsShardNotLoaded(day) => AnalyticsShardIntact(day)]_vars


\* -------------------------------------------------------- the exclusion machine
\* The three exclusion commands with bundle ids in any case, with and without
\* surrounding whitespace, and key events that the exclusions in force decide on.
ExclusionIds == {"com.test.editor", "Com.Test.Editor", " Com.Test.Editor ", "  ",
                 "com.1password.1password"}
ExclusionLists == {{}, {"Com.Test.Editor"}, {" Com.Test.Editor ", "com.1password.1password"}}

InitExclusion == NewCollectorState(TestConfig, NoAnalytics)

ExclusionAdd == \E bundle_id \in ExclusionIds : add_app_exclusion(bundle_id)

ExclusionRemove == \E bundle_id \in ExclusionIds : remove_app_exclusion(bundle_id)

ExclusionUpdate == \E bundle_ids \in ExclusionLists : update_app_exclusion_list(bundle_ids)

ExclusionKeyDown ==
    on_non_modifier_key_down("mac:6", NoMods, FALSE, CtxEditor, clock, 0, ThisMinute)

ExclusionKeyUp == on_non_modifier_key_up("mac:6", NoMods, CtxEditor, 0)

ExclusionRestart == Restart(app_config)

NextExclusion ==
    \/ ExclusionAdd
    \/ ExclusionRemove
    \/ ExclusionUpdate
    \/ ExclusionKeyDown
    \/ ExclusionKeyUp
    \/ ExclusionRestart

SpecExclusion == InitExclusion /\ [][NextExclusion]_vars

\* C40: after any sequence of add_app_exclusion, remove_app_exclusion and
\* update_app_exclusion_list commands with arbitrary bundle-id strings (any case, with or
\* without surrounding whitespace), the exclusion list stored in the config equals, as a
\* set, the in-memory excluded_bundle_ids.
C40_ConfigListIsExclusionSet == app_config.excluded_bundle_ids = excluded_bundle_ids

====
